---- MODULE Spec2Model ----
(***************************************************************************)
(* Model of the calculation core of DDT-1:                                 *)
(*   calculation_engine.py       calculate_volumetric_efficiency,          *)
(*                               calculate_row_performance                 *)
(*   calculation_orchestrator.py REQUIRED_SENSOR_ROLES,                    *)
(*                               _find_sensor_for_role,                    *)
(*                               run_batch_processing                      *)
(*                                                                         *)
(* Numbers are integers in fixed-point units:                              *)
(*   temperatures  degF as read, Kelvin in 1/100 K                         *)
(*   pressures     psig as read, Pa absolute                               *)
(*   eta_vol       1/1000 (0.85 is 850)                                    *)
(* Python's None is the integer None below, outside every value range.     *)
(***************************************************************************)
EXTENDS Integers, Sequences, FiniteSets, TLC

None == -999999

\* ------------------------------------------------------------------------
\* Bounds of the explored inputs
\* ------------------------------------------------------------------------
MaxOffNominal == 3
MaxRows == 3
MaxComps == 3

\* ------------------------------------------------------------------------
\* Unit conversions (calculation_engine.py)
\* ------------------------------------------------------------------------
\* (temp_f + 459.67) * 5.0 / 9.0, result in 1/100 K
f_to_k(temp_f) == ((temp_f * 100 + 45967) * 5) \div 9

\* (pressure_psig + 14.7) * 6894.76, result in Pa
psig_to_pa(pressure_psig) == ((pressure_psig * 10 + 147) * 6895) \div 10

\* hz * 3600.0
hz_to_rph_perMinute(hz) == hz * 60

hz_to_rph(hz) == hz * 3600

\* ft3 * 0.0283168, result in 1e-6 m3
ft3_to_m3(ft3) == (ft3 * 283168) \div 10

\* (t_k - 273.15) * 9/5 + 32, result in 1/100 degF
k_to_f(t_k) == ((t_k - 27315) * 9) \div 5 + 3200

\* ------------------------------------------------------------------------
\* Property oracle (CoolProp PropsSI).  A deterministic function of its two
\* state variables that fails (raises) on a state with a non-positive
\* absolute temperature or pressure.
\* ------------------------------------------------------------------------
PropsOk_TP(t_k, p_pa) == t_k > 0 /\ p_pa > 0
PropsOk_PQ(p_pa) == p_pa > 0
PropsOk_TQ(t_k) == t_k > 0

PropsSI_T_PQ(p_pa) == 20000 + p_pa \div 1000
PropsSI_P_TQ(t_k) == (t_k - 20000) * 10
PropsSI_H_TP(t_k, p_pa) == 200000 + 10 * t_k - p_pa \div 100
PropsSI_S_TP(t_k, p_pa) == 1000 + t_k \div 10 - p_pa \div 10000
PropsSI_D_TP(t_k, p_pa) == p_pa \div t_k

\* ------------------------------------------------------------------------
\* State
\* ------------------------------------------------------------------------
VARIABLES
    CP,                 \* TRUE iff the CoolProp import succeeded (module global CP)
    pc,                 \* position of the call in progress
    rated_inputs,       \* data_manager.rated_inputs
    eta_vol_results,    \* record returned by calculate_volumetric_efficiency
    row,                \* one input row: channel -> value
    sensor_map,         \* role key -> channel
    eta_vol,            \* calibration constant handed to the row transform
    comp_specs,         \* [displacement_m3 |-> ...]
    row_result,         \* pd.Series returned by calculate_row_performance
    components,         \* diagram_model['components'], in storage order
    sensor_roles,       \* diagram_model['sensor_roles']: role key -> channel
    input_columns,      \* columns of the input DataFrame
    series,             \* rows of the input DataFrame, in order
    duplicate_prevention, \* channel -> role that claimed it
    unmapped_roles,     \* roles the guard gave up on, in order
    results_df,         \* rows of the returned DataFrame, in order
    suction_pressure_pa, \* compute_8_point_cycle argument
    liquid_pressure_pa, \* compute_8_point_cycle argument
    temperatures_k,     \* compute_8_point_cycle argument: name -> absolute temperature
    state_points,       \* record returned by compute_8_point_cycle
    sensor_values,      \* current reading of each channel (data_manager)
    full_result,        \* record returned by calculate_full_system
    resolved            \* calls of _find_sensor_for_role so far: rule and returned channel

vars == <<CP, pc, rated_inputs, eta_vol_results, row, sensor_map, eta_vol,
          comp_specs, row_result, components, sensor_roles, input_columns,
          series, duplicate_prevention, unmapped_roles, results_df,
          suction_pressure_pa, liquid_pressure_pa, temperatures_k, state_points,
          sensor_values, full_result, resolved>>

batch_vars == <<components, sensor_roles, input_columns, series,
                duplicate_prevention, unmapped_roles, results_df>>

\* dict.get(key) / dict.get(key, default) on a function used as a dict
Get(d, key, default) == IF key \in DOMAIN d THEN d[key] ELSE default

\* The empty dict
EmptyDict == [k \in {} |-> None]

instant_vars == <<suction_pressure_pa, liquid_pressure_pa, temperatures_k, state_points,
                  sensor_values, full_result, resolved>>

\* No single-instant call is in progress
InstantIdle ==
    /\ suction_pressure_pa = 0
    /\ liquid_pressure_pa = 0
    /\ temperatures_k = EmptyDict
    /\ state_points = EmptyDict
    /\ sensor_values = EmptyDict
    /\ full_result = EmptyDict
    /\ resolved = <<>>

\* ------------------------------------------------------------------------
\* calculate_volumetric_efficiency (calculation_engine.py 572-685)
\* ------------------------------------------------------------------------
DefaultEtaVol == 850

\* "not x or x == 0": None, absent (get default 0) and 0 are all missing
Falsy(x) == x = None \/ x = 0

\* The names appended to `missing`, in the order of the five checks
MissingRated(ri) ==
    LET m_dot == Get(ri, "m_dot_rated_lbhr", 0)
        evap  == Get(ri, "rated_evap_temp_f", 0)
        ret   == Get(ri, "rated_return_gas_temp_f", 0)
        disp  == Get(ri, "disp_ft3", 0)
        hz    == Get(ri, "hz_rated", 0)
    IN  (IF Falsy(m_dot) THEN <<"Rated Mass Flow Rate">> ELSE <<>>)
        \o (IF Falsy(hz) THEN <<"Rated Compressor Speed">> ELSE <<>>)
        \o (IF Falsy(disp) THEN <<"Compressor Displacement">> ELSE <<>>)
        \o (IF Falsy(evap) THEN <<"Rated Evaporator Temperature">> ELSE <<>>)
        \o (IF Falsy(ret) THEN <<"Rated Return Gas Temperature">> ELSE <<>>)

DefaultRecord(warnings) ==
    [eta_vol |-> DefaultEtaVol, method |-> "default", warnings |-> warnings]

calculate_volumetric_efficiency(cp, ri) ==
    IF ~cp THEN [error |-> "CoolProp not available"]
    ELSE
    LET m_dot_rated_lb_hr == Get(ri, "m_dot_rated_lbhr", 0)
        rated_evap_f      == Get(ri, "rated_evap_temp_f", 0)
        rated_return_f    == Get(ri, "rated_return_gas_temp_f", 0)
        rated_disp_ft3    == Get(ri, "disp_ft3", 0)
        rated_hz          == Get(ri, "hz_rated", 0)
        missing           == MissingRated(ri)
    IN
    IF missing # <<>>
    THEN DefaultRecord(<<<<"Missing rated inputs", missing>>,
                         "Using default volumetric efficiency (0.85)",
                         "Mass flow and cooling capacity calculations will be approximate">>)
    ELSE
    LET rated_evap_k   == f_to_k(rated_evap_f)
        rated_return_k == f_to_k(rated_return_f)
    IN
    IF ~PropsOk_TQ(rated_evap_k)
       \/ ~PropsOk_TP(rated_return_k, PropsSI_P_TQ(rated_evap_k))
    THEN DefaultRecord(<<"Error calculating eta_vol",
                         "Using default volumetric efficiency (0.85)">>)
    ELSE
    LET P_rated_sat       == PropsSI_P_TQ(rated_evap_k)
        dens_rated_kg_m3  == PropsSI_D_TP(rated_return_k, P_rated_sat)
        \* * 0.062428, result in 1/1000 lb/ft3
        dens_rated_lb_ft3 == (dens_rated_kg_m3 * 62428) \div 1000
        rph               == hz_to_rph(rated_hz)
        \* 1/1000 lb/hr
        m_dot_th_lb_hr    == dens_rated_lb_ft3 * rph * rated_disp_ft3
    IN
    IF m_dot_th_lb_hr = 0
    THEN DefaultRecord(<<"Theoretical mass flow is zero - cannot calculate eta_vol",
                         "Using default volumetric efficiency (0.85)">>)
    ELSE [eta_vol |-> (m_dot_rated_lb_hr * 1000000) \div m_dot_th_lb_hr,
          method |-> "calculated",
          warnings |-> <<>>,
          m_dot_rated_lb_hr |-> m_dot_rated_lb_hr,
          m_dot_th_lb_hr |-> m_dot_th_lb_hr,
          dens_rated_lb_ft3 |-> dens_rated_lb_ft3,
          dens_rated_kg_m3 |-> dens_rated_kg_m3,
          P_rated_sat_pa |-> P_rated_sat,
          rph |-> rph]

\* ------------------------------------------------------------------------
\* calculate_row_performance (calculation_engine.py 688-913)
\* ------------------------------------------------------------------------
\* get_val: the role's column through sensor_map, then the row's value
get_val(rw, smap, key) ==
    IF key \notin DOMAIN smap THEN None ELSE Get(rw, smap[key], None)

\* Mutant: a failing row also carries an `ok` flag, as the full-system record does
ErrorSeries_withOkFlag(msg) == [k \in {"error", "ok"} |-> IF k = "error" THEN msg ELSE "False"]

\* pd.Series({'error': ...}): 753 and 913
ErrorSeries(msg) == [k \in {"error"} |-> msg]

\* One evaporator-outlet ("AT xx COIL") section: 768-810
CoilSection(t_f, p_suc_pa, t_sat_suc_k, nT, nSat, nSH, nH, nS, nD) ==
    IF t_f = None THEN EmptyDict
    ELSE LET t_k == f_to_k(t_f)
         IN  (nT :> t_f)
             @@ (nSat :> k_to_f(t_sat_suc_k))
             @@ (nSH :> ((t_k - t_sat_suc_k) * 9) \div 5)
             @@ (nH :> PropsSI_H_TP(t_k, p_suc_pa) \div 1000)
             @@ (nS :> PropsSI_S_TP(t_k, p_suc_pa) \div 1000)
             @@ (nD :> PropsSI_D_TP(t_k, p_suc_pa))

\* "AT COMPRESSOR INLET" section: 813-826
CompInletSection(t_2b_f, p_suc_psig, p_suc_pa, t_sat_suc_k) ==
    IF t_2b_f = None THEN EmptyDict
    ELSE LET t_2b_k == f_to_k(t_2b_f)
         IN  ("Press.suc" :> p_suc_psig)
             @@ ("Comp.in" :> t_2b_f)
             @@ ("T saturation" :> k_to_f(t_sat_suc_k))
             @@ ("Super heat" :> ((t_2b_k - t_sat_suc_k) * 9) \div 5)
             @@ ("Density" :> PropsSI_D_TP(t_2b_k, p_suc_pa))
             @@ ("Enthalpy" :> PropsSI_H_TP(t_2b_k, p_suc_pa) \div 1000)
             @@ ("Entropy" :> PropsSI_S_TP(t_2b_k, p_suc_pa) \div 1000)

\* Mutant: the speed is echoed only when it is present
OutletCondSection_rpmIfPresent(t_3a_f, rpm, t_3b_f, p_disch_psig, t_4a_f, t_sat_disch_k) ==
    (IF t_3a_f # None THEN ("T comp outlet" :> t_3a_f) ELSE EmptyDict)
    @@ (IF rpm # None THEN ("Comp. rpm" :> rpm) ELSE EmptyDict)
    @@ (IF t_3b_f # None THEN ("T cond inlet" :> t_3b_f) ELSE EmptyDict)
    @@ ("Press disch" :> p_disch_psig)
    @@ (IF t_4a_f # None
        THEN ("T cond. Outlet" :> t_4a_f)
             @@ ("T_sat_cond" :> k_to_f(t_sat_disch_k))
             @@ ("Sub cooling_cond" :> ((t_sat_disch_k - f_to_k(t_4a_f)) * 9) \div 5)
        ELSE EmptyDict)

\* "COMP OUTLET" and "AT CONDENSER" sections: 829-842
OutletCondSection(t_3a_f, rpm, t_3b_f, p_disch_psig, t_4a_f, t_sat_disch_k) ==
    (IF t_3a_f # None THEN ("T comp outlet" :> t_3a_f) ELSE EmptyDict)
    @@ ("Comp. rpm" :> rpm)
    @@ (IF t_3b_f # None THEN ("T cond inlet" :> t_3b_f) ELSE EmptyDict)
    @@ ("Press disch" :> p_disch_psig)
    @@ (IF t_4a_f # None
        THEN ("T cond. Outlet" :> t_4a_f)
             @@ ("T_sat_cond" :> k_to_f(t_sat_disch_k))
             @@ ("Sub cooling_cond" :> ((t_sat_disch_k - f_to_k(t_4a_f)) * 9) \div 5)
        ELSE EmptyDict)

\* One "AT TXV" section: 846-876
TxvSection(t_f, p_disch_pa, t_sat_disch_k, nT, nSat, nSC, nH) ==
    IF t_f = None THEN EmptyDict
    ELSE LET t_k == f_to_k(t_f)
         IN  (nT :> t_f)
             @@ (nSat :> k_to_f(t_sat_disch_k))
             @@ (nSC :> ((t_sat_disch_k - t_k) * 9) \div 5)
             @@ (nH :> PropsSI_H_TP(t_k, p_disch_pa) \div 1000)

\* h_4b_values: the enthalpies of the expansion-device inlets that are present
H4bValues(t_lh, t_ctr, t_rh, p_disch_pa) ==
    (IF t_lh # None THEN <<PropsSI_H_TP(f_to_k(t_lh), p_disch_pa)>> ELSE <<>>)
    \o (IF t_ctr # None THEN <<PropsSI_H_TP(f_to_k(t_ctr), p_disch_pa)>> ELSE <<>>)
    \o (IF t_rh # None THEN <<PropsSI_H_TP(f_to_k(t_rh), p_disch_pa)>> ELSE <<>>)

RECURSIVE SumSeq(_)
SumSeq(q) == IF q = <<>> THEN 0 ELSE Head(q) + SumSeq(Tail(q))

\* rho_2b * eta_vol * disp_m3 * (rpm / 60), result in 1e-9 kg/s
MassFlowKgs(rho_2b, eta, disp_m3, rpm) == ((rho_2b * eta * disp_m3) \div 60) * rpm

\* "FINAL PERFORMANCE" section: 881-903.  The guard reads rho_2b and h_2b,
\* which are bound only inside the compressor-inlet branch.
PerformanceSection(rpm, t_2b_f, p_suc_pa, eta, specs, h_4b_values) ==
    LET rho_2b == PropsSI_D_TP(f_to_k(t_2b_f), p_suc_pa)
        h_2b   == PropsSI_H_TP(f_to_k(t_2b_f), p_suc_pa)
    IN
    IF rpm # None /\ rpm > 0 /\ rho_2b # 0 /\ eta > 0
    THEN LET disp_m3 == Get(specs, "displacement_m3", 0)
         IN  IF disp_m3 > 0 /\ h_4b_values # <<>> /\ t_2b_f # None
             THEN LET mass_flow_kgs == MassFlowKgs(rho_2b, eta, disp_m3, rpm)
                      h_4b_avg == SumSeq(h_4b_values) \div Len(h_4b_values)
                  IN  \* * 2.20462 * 3600 (lb/hr) and * 3.41214 (BTU/hr)
                      ("Mass flow rate" :> ((mass_flow_kgs \div 1000000) * 7937))
                      @@ ("Cooling cap" :>
                            (((mass_flow_kgs \div 1000000) * ((h_2b - h_4b_avg) \div 1000)) * 3412)
                               \div 1000)
             ELSE EmptyDict
    ELSE EmptyDict

\* Mutant: the calls for the expansion-device inlets never raise
OracleCallsOk_suctionSideOnly(p_suc_pa, p_disch_pa, suction_temps_f, discharge_temps_f) ==
    /\ PropsOk_PQ(p_suc_pa)
    /\ PropsOk_PQ(p_disch_pa)
    /\ \A t \in suction_temps_f : t # None => PropsOk_TP(f_to_k(t), p_suc_pa)

\* Every PropsSI call of 764-876 returns: they all sit in the one try block
\* of 718-913, so one failing call raises out of the whole transform
OracleCallsOk(p_suc_pa, p_disch_pa, suction_temps_f, discharge_temps_f) ==
    /\ PropsOk_PQ(p_suc_pa)
    /\ PropsOk_PQ(p_disch_pa)
    /\ \A t \in suction_temps_f : t # None => PropsOk_TP(f_to_k(t), p_suc_pa)
    /\ \A t \in discharge_temps_f : t # None => PropsOk_TP(f_to_k(t), p_disch_pa)

\* "if p_suc_psig is None or p_disch_psig is None": 752
PressureMissing(p_suc_psig, p_disch_psig) == p_suc_psig = None \/ p_disch_psig = None

\* rho_2b is read at 881 although it is unbound: rpm present and positive
\* while the compressor-inlet branch at 813 did not run
Rho2bUnbound(rpm, t_2b_f) == rpm # None /\ rpm > 0 /\ t_2b_f = None

calculate_row_performance(cp, rw, smap, eta, specs) ==
    IF ~cp THEN ErrorSeries("CoolProp not available")
    ELSE
    LET p_suc_psig   == get_val(rw, smap, "P_suc")
        p_disch_psig == get_val(rw, smap, "P_disch")
        rpm          == get_val(rw, smap, "RPM")
        t_2a_lh_f    == get_val(rw, smap, "T_2a-LH")
        t_4b_lh_f    == get_val(rw, smap, "T_4b-lh")
        t_2a_ctr_f   == get_val(rw, smap, "T_2a-ctr")
        t_4b_ctr_f   == get_val(rw, smap, "T_4b-ctr")
        t_2a_rh_f    == get_val(rw, smap, "T_2a-RH")
        t_4b_rh_f    == get_val(rw, smap, "T_4b-rh")
        t_2b_f       == get_val(rw, smap, "T_2b")
        t_3a_f       == get_val(rw, smap, "T_3a")
        t_3b_f       == get_val(rw, smap, "T_3b")
        t_4a_f       == get_val(rw, smap, "T_4a")
    IN
    IF PressureMissing(p_suc_psig, p_disch_psig)
    THEN ErrorSeries("Missing pressure sensors")
    ELSE
    LET p_suc_pa   == psig_to_pa(p_suc_psig)
        p_disch_pa == psig_to_pa(p_disch_psig)
        oracle_ok  == OracleCallsOk(p_suc_pa, p_disch_pa,
                                    {t_2a_lh_f, t_2a_ctr_f, t_2a_rh_f, t_2b_f},
                                    {t_4b_lh_f, t_4b_ctr_f, t_4b_rh_f})
    IN
    IF ~oracle_ok THEN ErrorSeries("PropsSI failed")
    ELSE IF Rho2bUnbound(rpm, t_2b_f)
    THEN ErrorSeries("local variable 'rho_2b' referenced before assignment")
    ELSE
    LET t_sat_suc_k   == PropsSI_T_PQ(p_suc_pa)
        t_sat_disch_k == PropsSI_T_PQ(p_disch_pa)
    IN
    CoilSection(t_2a_lh_f, p_suc_pa, t_sat_suc_k, "T_2a-LH", "T_sat.lh",
                "S.H_lh coil", "H_coil lh", "S_coil lh", "D_coil lh")
    @@ CoilSection(t_2a_ctr_f, p_suc_pa, t_sat_suc_k, "T_2a-ctr", "T_sat.ctr",
                "S.H_ctr coil", "H_coil ctr", "S_coil ctr", "D_coil ctr")
    @@ CoilSection(t_2a_rh_f, p_suc_pa, t_sat_suc_k, "T_2a-RH", "T_sat.rh",
                "S.H_rh coil", "H_coil rh", "S_coil rh", "D_coil rh")
    @@ CompInletSection(t_2b_f, p_suc_psig, p_suc_pa, t_sat_suc_k)
    @@ OutletCondSection(t_3a_f, rpm, t_3b_f, p_disch_psig, t_4a_f, t_sat_disch_k)
    @@ TxvSection(t_4b_lh_f, p_disch_pa, t_sat_disch_k, "TXV in-LH",
                  "T_Saturation_txv_lh", "Subcooling_txv_lh", "Enthalpy_txv_lh")
    @@ TxvSection(t_4b_ctr_f, p_disch_pa, t_sat_disch_k, "TXV in-CTR",
                  "T_Saturation_txv_ctr", "Subcooling_txv_ctr", "Enthalpy_txv_ctr")
    @@ TxvSection(t_4b_rh_f, p_disch_pa, t_sat_disch_k, "TXV in-RH",
                  "T_Saturation_txv_rh", "Subcooling_txv_rh", "Enthalpy_txv_rh")
    @@ PerformanceSection(rpm, t_2b_f, p_suc_pa, eta, specs,
                          H4bValues(t_4b_lh_f, t_4b_ctr_f, t_4b_rh_f, p_disch_pa))

\* ------------------------------------------------------------------------
\* compute_8_point_cycle (calculation_engine.py 183-429)
\* ------------------------------------------------------------------------
\* The oracle on (pressure, enthalpy) and (pressure, entropy) inputs
PropsOk_PH(p_pa, h) == p_pa > 0
PropsOk_PS(p_pa, s) == p_pa > 0

PropsSI_T_PH(p_pa, h) == 20000 + p_pa \div 1000
PropsSI_D_PH(p_pa, h) == p_pa \div 10000 + h \div 100000
PropsSI_S_PH(p_pa, h) == 1000 + h \div 1000
PropsSI_Q_PH(p_pa, h) == (h \div 1000) % 1000
PropsSI_H_PS(p_pa, s) == 300000 + 100 * s + p_pa \div 100

\* "if x:" on a number or None
Truthy(x) == x # None /\ x # 0

\* T * 9/5 - 459.67, in 1/100 degF
k_to_f_abs(t_k) == (t_k * 9) \div 5 - 45967

\* The record stored for a measured point; high-side points before the
\* condenser and low-side points carry a superheat (sat. at quality 1), the
\* liquid points a subcooling (sat. at quality 0)
MeasuredState(label, t_k, p_pa, margin_name, margin) ==
    [k \in {"label", "T_K", "T_F", "P_Pa", "P_kPa", "h_kJkg", "rho_kgm3", "s_kJkgK",
            "T_sat_K", "T_sat_F", margin_name} |->
        CASE k = "label" -> label
          [] k = "T_K" -> t_k
          [] k = "T_F" -> k_to_f_abs(t_k)
          [] k = "P_Pa" -> p_pa
          [] k = "P_kPa" -> p_pa \div 1000
          [] k = "h_kJkg" -> PropsSI_H_TP(t_k, p_pa) \div 1000
          [] k = "rho_kgm3" -> PropsSI_D_TP(t_k, p_pa)
          [] k = "s_kJkgK" -> PropsSI_S_TP(t_k, p_pa) \div 1000
          [] k = "T_sat_K" -> PropsSI_T_PQ(p_pa)
          [] k = "T_sat_F" -> k_to_f_abs(PropsSI_T_PQ(p_pa))
          [] OTHER -> margin]

SuperheatedState(label, t_k, p_pa) ==
    MeasuredState(label, t_k, p_pa, "superheat_F", ((t_k - PropsSI_T_PQ(p_pa)) * 9) \div 5)

SubcooledState(label, t_k, p_pa) ==
    MeasuredState(label, t_k, p_pa, "subcooling_F", ((PropsSI_T_PQ(p_pa) - t_k) * 9) \div 5)

\* Mutant: the evaporator-inlet enthalpy is taken at the suction-side
\* saturation temperature instead of being carried over from the expansion inlet
EvaporatorInletState_saturated(h_1, p_pa) ==
    [label |-> "Evaporator Inlet (After TXV)",
     T_K |-> PropsSI_T_PH(p_pa, h_1),
     T_F |-> k_to_f_abs(PropsSI_T_PH(p_pa, h_1)),
     P_Pa |-> p_pa,
     P_kPa |-> p_pa \div 1000,
     h_kJkg |-> PropsSI_H_TP(PropsSI_T_PQ(p_pa), p_pa) \div 1000,
     rho_kgm3 |-> PropsSI_D_PH(p_pa, h_1),
     s_kJkgK |-> PropsSI_S_PH(p_pa, h_1) \div 1000,
     T_sat_K |-> PropsSI_T_PQ(p_pa),
     T_sat_F |-> k_to_f_abs(PropsSI_T_PQ(p_pa)),
     vapor_quality |-> PropsSI_Q_PH(p_pa, h_1),
     quality_percent |-> PropsSI_Q_PH(p_pa, h_1) * 100]

\* State 1, evaporator inlet: 317-338
EvaporatorInletState(h_1, p_pa) ==
    [label |-> "Evaporator Inlet (After TXV)",
     T_K |-> PropsSI_T_PH(p_pa, h_1),
     T_F |-> k_to_f_abs(PropsSI_T_PH(p_pa, h_1)),
     P_Pa |-> p_pa,
     P_kPa |-> p_pa \div 1000,
     h_kJkg |-> h_1 \div 1000,
     rho_kgm3 |-> PropsSI_D_PH(p_pa, h_1),
     s_kJkgK |-> PropsSI_S_PH(p_pa, h_1) \div 1000,
     T_sat_K |-> PropsSI_T_PQ(p_pa),
     T_sat_F |-> k_to_f_abs(PropsSI_T_PQ(p_pa)),
     vapor_quality |-> PropsSI_Q_PH(p_pa, h_1),
     quality_percent |-> PropsSI_Q_PH(p_pa, h_1) * 100]

\* Mutant: a failing oracle call empties the states stored so far
StateBlock_dropOnFailure(acc, key, runs, oracle_ok, state) ==
    IF acc.raised \/ ~runs THEN acc
    ELSE IF ~oracle_ok THEN [acc EXCEPT !.raised = TRUE, !.states = EmptyDict]
    ELSE [acc EXCEPT !.states = (key :> state) @@ @]

\* One "if T: ... result['states'][key] = {...}" block inside the try: a
\* block after a raised exception does not run, a failing oracle call raises
\* before the block stores its state
StateBlock(acc, key, runs, oracle_ok, state) ==
    IF acc.raised \/ ~runs THEN acc
    ELSE IF ~oracle_ok THEN [acc EXCEPT !.raised = TRUE]
    ELSE [acc EXCEPT !.states = (key :> state) @@ @]

\* Mutant: the performance block runs when either enthalpy is known
PerformanceBlock_eitherEnthalpy(acc, h_2b, h_4b, s_2b, T_3a, T_4a, p_liq) ==
    IF acc.raised \/ ~(Truthy(h_2b) \/ Truthy(h_4b)) THEN acc
    ELSE IF Truthy(s_2b) /\ ~PropsOk_PS(p_liq, s_2b) THEN [acc EXCEPT !.raised = TRUE]
    ELSE IF Truthy(T_3a) /\ Truthy(T_4a)
            /\ ~(PropsOk_TP(T_3a, p_liq) /\ PropsOk_TP(T_4a, p_liq))
    THEN [acc EXCEPT !.raised = TRUE]
    ELSE
    LET refrigeration_effect == (h_2b - h_4b) \div 1000
        compressor_work == IF Truthy(s_2b)
                           THEN (PropsSI_H_PS(p_liq, s_2b) - h_2b) \div 1000
                           ELSE None
        heat_rejected == IF Truthy(T_3a) /\ Truthy(T_4a)
                         THEN (PropsSI_H_TP(T_3a, p_liq) - PropsSI_H_TP(T_4a, p_liq)) \div 1000
                         ELSE None
        \* in 1/1000
        cop == IF Truthy(compressor_work) /\ compressor_work > 0
               THEN (refrigeration_effect * 1000) \div compressor_work
               ELSE None
    IN  [acc EXCEPT !.performance =
            [refrigeration_effect_kJkg |-> refrigeration_effect,
             compressor_work_kJkg |-> compressor_work,
             heat_rejected_kJkg |-> heat_rejected,
             cop |-> cop]]

\* 394-419: the performance block
PerformanceBlock(acc, h_2b, h_4b, s_2b, T_3a, T_4a, p_liq) ==
    IF acc.raised \/ ~(Truthy(h_2b) /\ Truthy(h_4b)) THEN acc
    ELSE IF Truthy(s_2b) /\ ~PropsOk_PS(p_liq, s_2b) THEN [acc EXCEPT !.raised = TRUE]
    ELSE IF Truthy(T_3a) /\ Truthy(T_4a)
            /\ ~(PropsOk_TP(T_3a, p_liq) /\ PropsOk_TP(T_4a, p_liq))
    THEN [acc EXCEPT !.raised = TRUE]
    ELSE
    LET refrigeration_effect == (h_2b - h_4b) \div 1000
        compressor_work == IF Truthy(s_2b)
                           THEN (PropsSI_H_PS(p_liq, s_2b) - h_2b) \div 1000
                           ELSE None
        heat_rejected == IF Truthy(T_3a) /\ Truthy(T_4a)
                         THEN (PropsSI_H_TP(T_3a, p_liq) - PropsSI_H_TP(T_4a, p_liq)) \div 1000
                         ELSE None
        \* in 1/1000
        cop == IF Truthy(compressor_work) /\ compressor_work > 0
               THEN (refrigeration_effect * 1000) \div compressor_work
               ELSE None
    IN  [acc EXCEPT !.performance =
            [refrigeration_effect_kJkg |-> refrigeration_effect,
             compressor_work_kJkg |-> compressor_work,
             heat_rejected_kJkg |-> heat_rejected,
             cop |-> cop]]

compute_8_point_cycle(cp, p_suc, p_liq, temps) ==
    IF ~cp THEN [error |-> "CoolProp not available"]
    ELSE
    LET T_3a == Get(temps, "T_3a", None)
        T_3b == Get(temps, "T_3b", None)
        T_4a == Get(temps, "T_4a", None)
        T_4b == Get(temps, "T_4b", None)
        T_2a == Get(temps, "T_2a", None)
        T_2b == Get(temps, "T_2b", None)
        a0   == [states |-> EmptyDict, performance |-> EmptyDict, raised |-> FALSE]
        a3a  == StateBlock(a0, "3a", Truthy(T_3a), PropsOk_TP(T_3a, p_liq),
                           SuperheatedState("Compressor Outlet", T_3a, p_liq))
        a3b  == StateBlock(a3a, "3b", Truthy(T_3b), PropsOk_TP(T_3b, p_liq),
                           SuperheatedState("Condenser Inlet", T_3b, p_liq))
        a4a  == StateBlock(a3b, "4a", Truthy(T_4a), PropsOk_TP(T_4a, p_liq),
                           SubcooledState("Condenser Outlet", T_4a, p_liq))
        a4b  == StateBlock(a4a, "4b", Truthy(T_4b), PropsOk_TP(T_4b, p_liq),
                           SubcooledState("TXV Inlet", T_4b, p_liq))
        \* h_4b stays None unless the 4b block ran to its first oracle call
        h_4b == IF ~a4a.raised /\ Truthy(T_4b) /\ PropsOk_TP(T_4b, p_liq)
                THEN PropsSI_H_TP(T_4b, p_liq) ELSE None
        a1   == StateBlock(a4b, "1", Truthy(h_4b), PropsOk_PH(p_suc, h_4b),
                           EvaporatorInletState(h_4b, p_suc))
        a2a  == StateBlock(a1, "2a", Truthy(T_2a), PropsOk_TP(T_2a, p_suc),
                           SuperheatedState("Evaporator Outlet", T_2a, p_suc))
        a2b  == StateBlock(a2a, "2b", Truthy(T_2b), PropsOk_TP(T_2b, p_suc),
                           SuperheatedState("Compressor Inlet", T_2b, p_suc))
        computed_2b == ~a2a.raised /\ Truthy(T_2b) /\ PropsOk_TP(T_2b, p_suc)
        h_2b   == IF computed_2b THEN PropsSI_H_TP(T_2b, p_suc) ELSE None
        s_2b   == IF computed_2b THEN PropsSI_S_TP(T_2b, p_suc) ELSE None
        rho_2b == IF computed_2b THEN PropsSI_D_TP(T_2b, p_suc) ELSE None
        aperf  == PerformanceBlock(a2b, h_2b, h_4b, s_2b, T_3a, T_4a, p_liq)
    IN  [refrigerant |-> "R290",
         pressures |-> [suction_pa |-> p_suc, liquid_pa |-> p_liq,
                        suction_kPa |-> p_suc \div 1000, liquid_kPa |-> p_liq \div 1000],
         states |-> aperf.states,
         performance |-> aperf.performance,
         errors |-> IF aperf.raised THEN <<"Calculation error: PropsSI failed">> ELSE <<>>]
        @@ (IF ~aperf.raised /\ Truthy(rho_2b)
            THEN ("density_compressor_inlet_kgm3" :> rho_2b) ELSE EmptyDict)

\* ------------------------------------------------------------------------
\* Inputs explored for the two pure functions
\* ------------------------------------------------------------------------
\* The thirteen roles calculate_row_performance reads (728-748)
RowRoles == {"P_suc", "P_disch", "RPM", "T_2a-LH", "T_4b-lh", "T_2a-ctr",
             "T_4b-ctr", "T_2a-RH", "T_4b-rh", "T_2b", "T_3a", "T_3b", "T_4a"}

PressureRoles == {"P_suc", "P_disch"}

\* CSV column mapped to each role in the explored sensor maps
ColumnOf ==
    [r \in RowRoles |->
        CASE r = "P_suc" -> "Suction Presure "
          [] r = "P_disch" -> "Discharge Pressure"
          [] r = "RPM" -> "Compressor RPM"
          [] r = "T_2a-LH" -> "Left TXV Bulb"
          [] r = "T_4b-lh" -> "Left TXV Inlet"
          [] r = "T_2a-ctr" -> "CTR TXV Bulb"
          [] r = "T_4b-ctr" -> "CTR TXV Inlet"
          [] r = "T_2a-RH" -> "Right TXV Bulb"
          [] r = "T_4b-rh" -> "Right TXV Inlet"
          [] r = "T_2b" -> "Suction line into Comp"
          [] r = "T_3a" -> "Discharge line from comp"
          [] r = "T_3b" -> "Ref Temp in HeatX"
          [] r = "T_4a" -> "Ref Temp out HeatX"]

\* A plausible reading for each role (psig, rpm, degF)
NominalValue ==
    [r \in RowRoles |->
        CASE r = "P_suc" -> 10
          [] r = "P_disch" -> 250
          [] r = "RPM" -> 120
          [] r = "T_2a-LH" -> 45
          [] r = "T_4b-lh" -> 90
          [] r = "T_2a-ctr" -> 46
          [] r = "T_4b-ctr" -> 91
          [] r = "T_2a-RH" -> 47
          [] r = "T_4b-rh" -> 92
          [] r = "T_2b" -> 50
          [] r = "T_3a" -> 150
          [] r = "T_3b" -> 140
          [] r = "T_4a" -> 95]

\* A reading outside the oracle's domain (below absolute zero / vacuum);
\* for the speed, a stopped compressor
BadValue ==
    [r \in RowRoles |->
        IF r \in PressureRoles THEN -20 ELSE IF r = "RPM" THEN 0 ELSE -500]

\* A second plausible reading
AltValue == [r \in RowRoles |-> IF r = "RPM" THEN 60 ELSE NominalValue[r] + 7]

OffKinds == {"unmapped", "none", "bad", "alt"}

\* The inputs of one row-transform call that may deviate from nominal
RowInputs == RowRoles \cup {"eta_vol", "displacement_m3", "CP"}

RowOf(off, kind) ==
    [c \in {ColumnOf[r] : r \in RowRoles} |->
        LET r == CHOOSE x \in RowRoles : ColumnOf[x] = c
        IN  IF r \in off /\ kind[r] = "none" THEN None
            ELSE IF r \in off /\ kind[r] = "bad" THEN BadValue[r]
            ELSE IF r \in off /\ kind[r] = "alt" THEN AltValue[r]
            ELSE NominalValue[r]]

SensorMapOf(off, kind) ==
    [r \in {x \in RowRoles : ~(x \in off /\ kind[x] = "unmapped")} |-> ColumnOf[r]]

BatchIdle ==
    /\ components = <<>>
    /\ sensor_roles = EmptyDict
    /\ input_columns = {}
    /\ series = <<>>
    /\ duplicate_prevention = EmptyDict
    /\ unmapped_roles = <<>>
    /\ results_df = <<>>

\* --- calculate_row_performance called on its own --------------------------
InitRow ==
    /\ pc = "row_ready"
    /\ \E off \in SUBSET RowInputs :
         /\ Cardinality(off) <= MaxOffNominal
         /\ \E kind \in [off \cap RowRoles -> OffKinds] :
              /\ row = RowOf(off, kind)
              /\ sensor_map = SensorMapOf(off, kind)
         /\ CP = ("CP" \notin off)
         /\ eta_vol = IF "eta_vol" \in off THEN 0 - DefaultEtaVol ELSE DefaultEtaVol
         /\ comp_specs = [displacement_m3 |->
                            ft3_to_m3(IF "displacement_m3" \in off THEN 0 ELSE 1)]
    /\ rated_inputs = EmptyDict
    /\ eta_vol_results = EmptyDict
    /\ row_result = EmptyDict
    /\ BatchIdle
    /\ InstantIdle

RowCall ==
    /\ pc = "row_ready"
    /\ row_result' = calculate_row_performance(CP, row, sensor_map, eta_vol, comp_specs)
    /\ pc' = "row_done"
    /\ UNCHANGED <<CP, rated_inputs, eta_vol_results, row, sensor_map, eta_vol,
                   comp_specs, batch_vars, instant_vars>>

NextRow == RowCall

SpecRow == InitRow /\ [][NextRow]_vars

\* --- calculate_volumetric_efficiency called on its own --------------------
RatedKeys == {"m_dot_rated_lbhr", "hz_rated", "disp_ft3", "rated_evap_temp_f",
              "rated_return_gas_temp_f"}

\* Marks a key the rated-inputs dict does not hold
Absent == -888888

\* Values explored per rated input: absent, None, zero, plausible values and
\* temperatures at which the oracle fails or returns a zero density
RatedChoices ==
    [k \in RatedKeys |->
        CASE k = "m_dot_rated_lbhr" -> {Absent, None, 0, 1000, 500}
          [] k = "hz_rated" -> {Absent, 0, 1, 2}
          [] k = "disp_ft3" -> {Absent, None, 0, 1, 2}
          [] k = "rated_evap_temp_f" -> {Absent, 0, 40, -90, -100, -500}
          [] k = "rated_return_gas_temp_f" -> {Absent, 0, 50, 65, -500}]

RatedOf(choice) == [k \in {x \in RatedKeys : choice[x] # Absent} |-> choice[k]]

RowIdle ==
    /\ row = EmptyDict
    /\ sensor_map = EmptyDict
    /\ eta_vol = 0
    /\ comp_specs = EmptyDict
    /\ row_result = EmptyDict

InitCalib ==
    /\ pc = "calib_ready"
    /\ CP \in BOOLEAN
    /\ \E choice \in [RatedKeys -> UNION {RatedChoices[k] : k \in RatedKeys}] :
         /\ \A k \in RatedKeys : choice[k] \in RatedChoices[k]
         /\ rated_inputs = RatedOf(choice)
    /\ eta_vol_results = EmptyDict
    /\ RowIdle
    /\ BatchIdle
    /\ InstantIdle

CalibCall ==
    /\ pc = "calib_ready"
    /\ eta_vol_results' = calculate_volumetric_efficiency(CP, rated_inputs)
    /\ pc' = "calib_done"
    /\ UNCHANGED <<CP, rated_inputs, row, sensor_map, eta_vol, comp_specs,
                   row_result, batch_vars, instant_vars>>

NextCalib == CalibCall

SpecCalib == InitCalib /\ [][NextCalib]_vars

\* --- compute_8_point_cycle called on its own -------------------------------
CycleTemps == {"T_2a", "T_2b", "T_3a", "T_3b", "T_4a", "T_4b"}

\* A plausible absolute temperature for each point of the cycle, in 1/100 K
NominalTempK ==
    [t \in CycleTemps |->
        CASE t = "T_2a" -> f_to_k(45) [] t = "T_2b" -> f_to_k(50) [] t = "T_3a" -> f_to_k(150)
          [] t = "T_3b" -> f_to_k(140) [] t = "T_4a" -> f_to_k(95) [] t = "T_4b" -> f_to_k(90)]

\* A temperature is left out of the dict, is zero, is plausible, or is
\* outside the oracle's domain
TempKinds == {"absent", "zero", "nominal", "bad"}

TemperaturesOf(kind) ==
    [t \in {x \in CycleTemps : kind[x] # "absent"} |->
        CASE kind[t] = "zero" -> 0
          [] kind[t] = "bad" -> f_to_k(BadValue["T_2b"])
          [] OTHER -> NominalTempK[t]]

BatchRowIdle ==
    /\ rated_inputs = EmptyDict
    /\ eta_vol_results = EmptyDict
    /\ RowIdle
    /\ BatchIdle

\* The liquid pressure at which the oracle's enthalpy for the plausible
\* expansion-inlet temperature is exactly zero
ZeroEnthalpyLiquidPa == (200000 + 10 * NominalTempK["T_4b"]) * 100

InitCycle ==
    /\ pc = "cycle_ready"
    /\ CP \in BOOLEAN
    /\ suction_pressure_pa \in {psig_to_pa(NominalValue["P_suc"]), psig_to_pa(BadValue["P_suc"])}
    /\ liquid_pressure_pa \in {psig_to_pa(NominalValue["P_disch"]),
                               psig_to_pa(BadValue["P_disch"]), ZeroEnthalpyLiquidPa}
    /\ \E kind \in [CycleTemps -> TempKinds] : temperatures_k = TemperaturesOf(kind)
    /\ state_points = EmptyDict
    /\ sensor_values = EmptyDict
    /\ full_result = EmptyDict
    /\ resolved = <<>>
    /\ BatchRowIdle

CycleCall ==
    /\ pc = "cycle_ready"
    /\ state_points' = compute_8_point_cycle(CP, suction_pressure_pa, liquid_pressure_pa,
                                             temperatures_k)
    /\ pc' = "cycle_done"
    /\ UNCHANGED <<CP, rated_inputs, eta_vol_results, row, sensor_map, eta_vol, comp_specs,
                   row_result, batch_vars, suction_pressure_pa, liquid_pressure_pa,
                   temperatures_k, sensor_values, full_result, resolved>>

NextCycle == CycleCall

SpecCycle == InitCycle /\ [][NextCycle]_vars

\* ------------------------------------------------------------------------
\* REQUIRED_SENSOR_ROLES (calculation_orchestrator.py 397-454), in dict order.
\* A rule is (ComponentType, PortName, property filter); no filter is {}.
\* ------------------------------------------------------------------------
Rule(type, port, props) == [type |-> type, port |-> port, props |-> props]

Label(l) == [k \in {"circuit_label"} |-> l]

Role(key, defs) == [key |-> key, defs |-> defs]

REQUIRED_SENSOR_ROLES ==
    << Role("P_suc", <<Rule("Compressor", "SP", EmptyDict)>>),
       Role("P_disch", <<Rule("Compressor", "DP", EmptyDict)>>),
       Role("RPM", <<Rule("Compressor", "RPM", EmptyDict)>>),
       Role("T_2b", <<Rule("Compressor", "inlet", EmptyDict)>>),
       Role("T_3a", <<Rule("Compressor", "outlet", EmptyDict)>>),
       Role("T_3b", <<Rule("Condenser", "inlet", EmptyDict)>>),
       Role("T_4a", <<Rule("Condenser", "outlet", EmptyDict)>>),
       Role("T_waterin", <<Rule("Condenser", "water_inlet", EmptyDict)>>),
       Role("T_waterout", <<Rule("Condenser", "water_outlet", EmptyDict)>>),
       Role("T_1a-lh", <<Rule("Distributor", "outlet_1", Label("Left")),
                         Rule("Evaporator", "inlet_circuit_1", Label("Left"))>>),
       Role("T_1b-lh", <<Rule("Evaporator", "inlet_circuit_2", Label("Left"))>>),
       Role("T_2a-LH", <<Rule("Evaporator", "outlet_circuit_1", Label("Left"))>>),
       Role("T_4b-lh", <<Rule("TXV", "inlet", Label("Left"))>>),
       Role("T_1a-ctr", <<Rule("Distributor", "outlet_1", Label("Center")),
                          Rule("Evaporator", "inlet_circuit_1", Label("Center"))>>),
       Role("T_1b-ctr", <<Rule("Evaporator", "inlet_circuit_2", Label("Center"))>>),
       Role("T_2a-ctr", <<Rule("Evaporator", "outlet_circuit_1", Label("Center"))>>),
       Role("T_4b-ctr", <<Rule("TXV", "inlet", Label("Center"))>>),
       Role("T_1a-rh", <<Rule("Distributor", "outlet_1", Label("Right")),
                         Rule("Evaporator", "inlet_circuit_1", Label("Right"))>>),
       Role("T_1c-rh", <<Rule("Evaporator", "inlet_circuit_2", Label("Right"))>>),
       Role("T_2a-RH", <<Rule("Evaporator", "outlet_circuit_1", Label("Right"))>>),
       Role("T_4b-rh", <<Rule("TXV", "inlet", Label("Right"))>>),
       Role("Cond.water.out", <<Rule("Condenser", "water_out_temp", EmptyDict)>>),
       Role("Cond.water.in", <<Rule("Condenser", "water_in_temp", EmptyDict)>> ) >>

\* ------------------------------------------------------------------------
\* Sensor Role Resolver
\* ------------------------------------------------------------------------
\* A component is [id, type, properties]; `comps` holds them in the order
\* components.items() yields them.  A mapping-table key is <<Type, Id, Port>>
\* for "{Type}.{Id}.{Port}" and <<"", Id, Port>> for the legacy "{Id}.{Port}".
RoleKey(type, id, port) == <<type, id, port>>
LegacyKey(id, port) == <<"", id, port>>

\* port_resolver.resolve_mapped_sensor: the channel stored under the typed
\* key, else under the legacy key, else None ("" when nothing is mapped)
resolve_mapped_sensor(roles, type, id, port) ==
    IF RoleKey(type, id, port) \in DOMAIN roles /\ roles[RoleKey(type, id, port)] # ""
    THEN roles[RoleKey(type, id, port)]
    ELSE IF LegacyKey(id, port) \in DOMAIN roles
    THEN roles[LegacyKey(id, port)]
    ELSE ""

\* Mutant: a filter key the component does not store is not compared
ComponentMatches_missingKeyIgnored(comp, role_def) ==
    /\ comp.type = role_def.type
    /\ \A key \in DOMAIN role_def.props :
         key \in DOMAIN comp.properties => comp.properties[key] = role_def.props[key]

\* 482-494: type equality and every filter key equal to the stored property
ComponentMatches(comp, role_def) ==
    /\ comp.type = role_def.type
    /\ \A key \in DOMAIN role_def.props :
         key \in DOMAIN comp.properties /\ comp.properties[key] = role_def.props[key]

\* 477-494: matching_components, in the order of components.items()
MatchingComponents(comps, role_def) ==
    SelectSeq(comps, LAMBDA comp : ComponentMatches(comp, role_def))

\* 504-509: the first matching component with a non-empty mapped sensor;
\* "" stands for None
RECURSIVE FirstMapped(_, _, _)
FirstMapped(matching, roles, role_def) ==
    IF matching = <<>> THEN ""
    ELSE LET sensor == resolve_mapped_sensor(roles, role_def.type,
                                             Head(matching).id, role_def.port)
         IN  IF sensor # "" THEN sensor
             ELSE FirstMapped(Tail(matching), roles, role_def)

_find_sensor_for_role(comps, roles, role_def) ==
    FirstMapped(MatchingComponents(comps, role_def), roles, role_def)

\* ------------------------------------------------------------------------
\* Duplicate-Mapping Guard: the loop of run_batch_processing, 584-632
\* ------------------------------------------------------------------------
\* Mutant: check 3 (duplicate_prevention) is left out
RECURSIVE AcceptedSensor_noDuplicateCheck(_, _, _, _, _)
AcceptedSensor_noDuplicateCheck(role_defs, comps, roles, columns, claimed) ==
    IF role_defs = <<>> THEN ""
    ELSE LET sensor_name == _find_sensor_for_role(comps, roles, Head(role_defs))
         IN  IF sensor_name # "" /\ sensor_name \in columns
             THEN sensor_name
             ELSE AcceptedSensor_noDuplicateCheck(Tail(role_defs), comps, roles,
                                                  columns, claimed)

\* Mutant: a resolved channel is accepted without looking at the input columns
RECURSIVE AcceptedSensor_noColumnCheck(_, _, _, _, _)
AcceptedSensor_noColumnCheck(role_defs, comps, roles, columns, claimed) ==
    IF role_defs = <<>> THEN ""
    ELSE LET sensor_name == _find_sensor_for_role(comps, roles, Head(role_defs))
         IN  IF sensor_name # "" /\ sensor_name \notin claimed
             THEN sensor_name
             ELSE AcceptedSensor_noColumnCheck(Tail(role_defs), comps, roles,
                                               columns, claimed)

\* Mutant: the rules are tried from the last to the first
RECURSIVE AcceptedSensor_lastRuleFirst(_, _, _, _, _)
AcceptedSensor_lastRuleFirst(role_defs, comps, roles, columns, claimed) ==
    IF role_defs = <<>> THEN ""
    ELSE LET sensor_name == _find_sensor_for_role(comps, roles,
                                                  role_defs[Len(role_defs)])
         IN  IF sensor_name # "" /\ sensor_name \in columns /\ sensor_name \notin claimed
             THEN sensor_name
             ELSE AcceptedSensor_lastRuleFirst(SubSeq(role_defs, 1, Len(role_defs) - 1),
                                               comps, roles, columns, claimed)

\* Mutant: only the first rule is tried
AcceptedSensor_firstRuleOnly(role_defs, comps, roles, columns, claimed) ==
    IF role_defs = <<>> THEN ""
    ELSE LET sensor_name == _find_sensor_for_role(comps, roles, Head(role_defs))
         IN  IF sensor_name # "" /\ sensor_name \in columns /\ sensor_name \notin claimed
             THEN sensor_name
             ELSE ""

\* 594-629 for one role: the sensor of the first rule, in list order, that
\* resolves to a non-empty channel which is a column of the input and is not
\* in duplicate_prevention; "" when the loop ends without a break
RECURSIVE AcceptedSensor(_, _, _, _, _)
AcceptedSensor(role_defs, comps, roles, columns, claimed) ==
    IF role_defs = <<>> THEN ""
    ELSE LET sensor_name == _find_sensor_for_role(comps, roles, Head(role_defs))
         IN  IF sensor_name # "" /\ sensor_name \in columns /\ sensor_name \notin claimed
             THEN sensor_name
             ELSE AcceptedSensor(Tail(role_defs), comps, roles, columns, claimed)

\* Mutant: a role without an accepted sensor is not recorded as unmapped
GuardRole_unmappedNotListed(st, role, comps, roles, columns) ==
    LET sensor_name == AcceptedSensor(role.defs, comps, roles, columns,
                                      DOMAIN st.duplicate_prevention)
    IN  IF sensor_name = ""
        THEN st
        ELSE IF role.key \notin DOMAIN st.sensor_map
        THEN [st EXCEPT !.sensor_map = (role.key :> sensor_name) @@ @,
                        !.duplicate_prevention = (sensor_name :> role.key) @@ @]
        ELSE st

\* Mutant: the sensor is not marked as claimed
GuardRole_noClaim(st, role, comps, roles, columns) ==
    LET sensor_name == AcceptedSensor(role.defs, comps, roles, columns,
                                      DOMAIN st.duplicate_prevention)
    IN  IF sensor_name = ""
        THEN [st EXCEPT !.unmapped_roles = Append(@, role.key)]
        ELSE [st EXCEPT !.sensor_map = (role.key :> sensor_name) @@ @]

\* One iteration of the for loop at 587: st is the triple of the loop's locals
GuardRole(st, role, comps, roles, columns) ==
    LET sensor_name == AcceptedSensor(role.defs, comps, roles, columns,
                                      DOMAIN st.duplicate_prevention)
    IN  IF sensor_name = ""
        THEN [st EXCEPT !.unmapped_roles = Append(@, role.key)]
        ELSE IF role.key \notin DOMAIN st.sensor_map
        THEN [st EXCEPT !.sensor_map = (role.key :> sensor_name) @@ @,
                        !.duplicate_prevention = (sensor_name :> role.key) @@ @]
        ELSE st

\* The loop over REQUIRED_SENSOR_ROLES.items(), first k roles
RECURSIVE GuardPass(_, _, _, _)
GuardPass(k, comps, roles, columns) ==
    IF k = 0
    THEN [sensor_map |-> EmptyDict, duplicate_prevention |-> EmptyDict,
          unmapped_roles |-> <<>>]
    ELSE GuardRole(GuardPass(k - 1, comps, roles, columns),
                   REQUIRED_SENSOR_ROLES[k], comps, roles, columns)

\* ------------------------------------------------------------------------
\* run_batch_processing (calculation_orchestrator.py 512-663)
\* ------------------------------------------------------------------------
\* 534-544: Step 1 ends the run when the calibration record carries `error`
CalibrateFatal ==
    /\ pc = "start"
    /\ LET r == calculate_volumetric_efficiency(CP, rated_inputs)
       IN  /\ "error" \in DOMAIN r
           /\ eta_vol_results' = r
           /\ results_df' = <<ErrorSeries(r["error"])>>
    /\ pc' = "done"
    /\ UNCHANGED <<CP, rated_inputs, row, sensor_map, eta_vol, comp_specs, row_result,
                   components, sensor_roles, input_columns, series,
                   duplicate_prevention, unmapped_roles, instant_vars>>

\* 534-566: Step 1 and Step 2, eta_vol and the compressor specs
Calibrate ==
    /\ pc = "start"
    /\ LET r == calculate_volumetric_efficiency(CP, rated_inputs)
           disp == Get(rated_inputs, "disp_ft3", None)
       IN  /\ "error" \notin DOMAIN r
           /\ eta_vol_results' = r
           /\ eta_vol' = Get(r, "eta_vol", DefaultEtaVol)
           /\ comp_specs' = [displacement_m3 |-> ft3_to_m3(IF Falsy(disp) THEN 0 ELSE disp)]
    /\ pc' = "guard"
    /\ UNCHANGED <<CP, rated_inputs, row, sensor_map, row_result, batch_vars, instant_vars>>

\* 568-645: Step 3, the sensor map
BuildSensorMap ==
    /\ pc = "guard"
    /\ LET st == GuardPass(Len(REQUIRED_SENSOR_ROLES), components, sensor_roles,
                           input_columns)
       IN  /\ sensor_map' = st.sensor_map
           /\ duplicate_prevention' = st.duplicate_prevention
           /\ unmapped_roles' = st.unmapped_roles
    /\ pc' = "rows"
    /\ UNCHANGED <<CP, rated_inputs, eta_vol_results, row, eta_vol, comp_specs,
                   row_result, components, sensor_roles, input_columns, series,
                   results_df, instant_vars>>

\* Mutant: the transform removes the speed role from the channel map it was
\* handed
ApplyRow_droppingSpeedRole ==
    /\ pc = "rows"
    /\ Len(results_df) < Len(series)
    /\ results_df' = Append(results_df,
                            calculate_row_performance(CP, series[Len(results_df) + 1],
                                                      sensor_map, eta_vol, comp_specs))
    /\ sensor_map' = [k \in DOMAIN sensor_map \ {"RPM"} |-> sensor_map[k]]
    /\ UNCHANGED <<CP, pc, rated_inputs, eta_vol_results, row, eta_vol,
                   comp_specs, row_result, components, sensor_roles, input_columns,
                   series, duplicate_prevention, unmapped_roles, instant_vars>>

\* Mutant: the calibration constant falls back to the default once a row
\* has been transformed
ApplyRow_recalibrating ==
    /\ pc = "rows"
    /\ Len(results_df) < Len(series)
    /\ results_df' = Append(results_df,
                            calculate_row_performance(CP, series[Len(results_df) + 1],
                                                      sensor_map, eta_vol, comp_specs))
    /\ eta_vol' = DefaultEtaVol
    /\ UNCHANGED <<CP, pc, rated_inputs, eta_vol_results, row, sensor_map,
                   comp_specs, row_result, components, sensor_roles, input_columns,
                   series, duplicate_prevention, unmapped_roles, instant_vars>>

\* 650-657: DataFrame.apply(axis=1) hands the next row to the transform
ApplyRow ==
    /\ pc = "rows"
    /\ Len(results_df) < Len(series)
    /\ results_df' = Append(results_df,
                            calculate_row_performance(CP, series[Len(results_df) + 1],
                                                      sensor_map, eta_vol, comp_specs))
    /\ UNCHANGED <<CP, pc, rated_inputs, eta_vol_results, row, sensor_map, eta_vol,
                   comp_specs, row_result, components, sensor_roles, input_columns,
                   series, duplicate_prevention, unmapped_roles, instant_vars>>

\* Mutant: the run returns as soon as a row's output is an error
Return_onRowError ==
    /\ pc = "rows"
    /\ \/ Len(results_df) = Len(series)
       \/ /\ results_df # <<>>
          /\ DOMAIN results_df[Len(results_df)] = {"error"}
    /\ pc' = "done"
    /\ UNCHANGED <<CP, rated_inputs, eta_vol_results, row, sensor_map, eta_vol,
                   comp_specs, row_result, batch_vars, instant_vars>>

\* 663: return results_df
Return ==
    /\ pc = "rows"
    /\ Len(results_df) = Len(series)
    /\ pc' = "done"
    /\ UNCHANGED <<CP, rated_inputs, eta_vol_results, row, sensor_map, eta_vol,
                   comp_specs, row_result, batch_vars, instant_vars>>

Next == CalibrateFatal \/ Calibrate \/ BuildSensorMap \/ ApplyRow \/ Return

\* ------------------------------------------------------------------------
\* Inputs explored for run_batch_processing
\* ------------------------------------------------------------------------
\* A complete rated-inputs record (calibration takes the calculated path)
RatedComplete ==
    [m_dot_rated_lbhr |-> 300, hz_rated |-> 1, disp_ft3 |-> 1,
     rated_evap_temp_f |-> 40, rated_return_gas_temp_f |-> 50]

\* The component of a topology before it is given an id: its type, its
\* property bag and the channel mapped to each of its ports
Option(type, properties, ports) ==
    [type |-> type, properties |-> properties, ports |-> ports]

CompOptions ==
    { Option("Compressor", EmptyDict, ("SP" :> "chA") @@ ("DP" :> "chA")),
      Option("Compressor", EmptyDict, ("SP" :> "chA") @@ ("DP" :> "chB")),
      Option("Compressor", EmptyDict, ("DP" :> "chB")),
      Option("Compressor", EmptyDict, ("SP" :> "chA")),
      Option("Distributor", Label("Left"), ("outlet_1" :> "chA")),
      Option("Distributor", Label("Left"), ("outlet_1" :> "chB")),
      Option("Distributor", Label("Left"), ("outlet_1" :> "")),
      Option("Evaporator", Label("Left"), ("inlet_circuit_1" :> "chB")),
      Option("Evaporator", Label("Left"), ("inlet_circuit_2" :> "chA")),
      Option("Evaporator", EmptyDict, ("inlet_circuit_1" :> "chA")) }

\* Component ids follow the storage order or run against it
IdOf(i, n, ascending) == IF ascending THEN i ELSE n + 1 - i

ComponentsOf(opts, ascending) ==
    [i \in 1..Len(opts) |->
        [id |-> IdOf(i, Len(opts), ascending), type |-> opts[i].type,
         properties |-> opts[i].properties]]

\* The mapping table of a topology; distributor ports are stored under the
\* legacy key, the others under the typed key
KeyOf(type, id, port) ==
    IF type = "Distributor" THEN LegacyKey(id, port) ELSE RoleKey(type, id, port)

SensorRolesOf(opts, ascending) ==
    LET keys == {<<i, p>> \in (1..Len(opts)) \X {"SP", "DP", "RPM", "inlet", "outlet_1",
                                                 "inlet_circuit_1", "inlet_circuit_2"} :
                    p \in DOMAIN opts[i].ports}
    IN  [k \in {KeyOf(opts[x[1]].type, IdOf(x[1], Len(opts), ascending), x[2]) : x \in keys} |->
            LET x == CHOOSE y \in keys :
                       KeyOf(opts[y[1]].type, IdOf(y[1], Len(opts), ascending), y[2]) = k
            IN  opts[x[1]].ports[x[2]]]

\* One reading per column
GuardRow(columns) == [c \in columns |-> IF c = "chA" THEN 10 ELSE 250]

Init ==
    /\ pc = "start"
    /\ CP \in BOOLEAN
    /\ rated_inputs = RatedComplete
    /\ \E n \in 0..MaxComps : \E opts \in [1..n -> CompOptions] : \E ascending \in BOOLEAN :
         /\ (n < 2 => ascending)
         /\ components = ComponentsOf(opts, ascending)
         /\ sensor_roles = SensorRolesOf(opts, ascending)
    /\ input_columns \in {{"chA", "chB"}, {"chA"}}
    /\ series = <<GuardRow(input_columns)>>
    /\ eta_vol_results = EmptyDict
    /\ RowIdle
    /\ duplicate_prevention = EmptyDict
    /\ unmapped_roles = <<>>
    /\ results_df = <<>>
    /\ InstantIdle

Spec == Init /\ [][Next]_vars

\* --- run_batch_processing over varied series, rated inputs and oracle ------
\* A compressor and a left expansion valve with their ports mapped to the
\* columns of ColumnOf, one port at most left unmapped
BatchPorts ==
    { <<"Compressor", 1, "SP", "P_suc">>, <<"Compressor", 1, "DP", "P_disch">>,
      <<"Compressor", 1, "RPM", "RPM">>, <<"Compressor", 1, "inlet", "T_2b">>,
      <<"TXV", 2, "inlet", "T_4b-lh">> }

BatchComponents ==
    << [id |-> 1, type |-> "Compressor", properties |-> EmptyDict],
       [id |-> 2, type |-> "TXV", properties |-> Label("Left")] >>

BatchSensorRoles(unmapped) ==
    LET mapped == {x \in BatchPorts : x[4] # unmapped}
    IN  [k \in {RoleKey(x[1], x[2], x[3]) : x \in mapped} |->
            ColumnOf[(CHOOSE x \in mapped : RoleKey(x[1], x[2], x[3]) = k)[4]]]

\* The rows a series is made of: complete, suction pressure missing, suction
\* pressure outside the oracle's domain, compressor inlet missing, speed missing
BatchRows ==
    { RowOf({}, EmptyDict),
      RowOf({"P_suc"}, [r \in {"P_suc"} |-> "none"]),
      RowOf({"P_suc"}, [r \in {"P_suc"} |-> "bad"]),
      RowOf({"T_2b"}, [r \in {"T_2b"} |-> "none"]),
      RowOf({"RPM"}, [r \in {"RPM"} |-> "none"]) }

BatchRated ==
    { RatedComplete,
      [k \in RatedKeys \ {"m_dot_rated_lbhr"} |-> RatedComplete[k]],
      [RatedComplete EXCEPT !["disp_ft3"] = None] }

InitBatch ==
    /\ pc = "start"
    /\ CP \in BOOLEAN
    /\ rated_inputs \in BatchRated
    /\ components = BatchComponents
    /\ \E unmapped \in {"", "P_suc", "P_disch", "RPM", "T_2b", "T_4b-lh"} :
         sensor_roles = BatchSensorRoles(unmapped)
    /\ input_columns = {ColumnOf[r] : r \in RowRoles}
    /\ \E n \in 0..MaxRows : series \in [1..n -> BatchRows]
    /\ eta_vol_results = EmptyDict
    /\ RowIdle
    /\ duplicate_prevention = EmptyDict
    /\ unmapped_roles = <<>>
    /\ results_df = <<>>
    /\ InstantIdle

SpecBatch == InitBatch /\ [][Next]_vars

\* ------------------------------------------------------------------------
\* calculate_full_system and what it gathers (calculation_orchestrator.py 23-283)
\* ------------------------------------------------------------------------
\* A dict-valued field that is None
NullRecord == [null |-> TRUE]

\* port_resolver.get_sensor_value: the current reading of a channel, None
\* when no channel is mapped or the channel has no data
get_sensor_value(values, sensor) ==
    IF sensor = "" THEN None ELSE Get(values, sensor, None)

\* The reading at one port of one component
PortReading(roles, values, type, id, port) ==
    get_sensor_value(values, resolve_mapped_sensor(roles, type, id, port))

\* The components of a type, in the order of components.items()
OfType(comps, type) == SelectSeq(comps, LAMBDA comp : comp.type = type)

\* 101-129
gather_pressures_from_ports(comps, roles, values) ==
    IF OfType(comps, "Compressor") = <<>> THEN EmptyDict
    ELSE LET id == Head(OfType(comps, "Compressor")).id
             sp == PortReading(roles, values, "Compressor", id, "SP")
             dp == PortReading(roles, values, "Compressor", id, "DP")
         IN  (IF sp # None THEN ("suction_pa" :> psig_to_pa(sp)) ELSE EmptyDict)
             @@ (IF dp # None THEN ("liquid_pa" :> psig_to_pa(dp)) ELSE EmptyDict)

\* f"outlet_circuit_{i}"
OutletCircuitPort(i) ==
    CASE i = 1 -> "outlet_circuit_1" [] i = 2 -> "outlet_circuit_2" [] OTHER -> "outlet_circuit_3"

\* 70-76: the converted inlet readings of the expansion valves that have one
RECURSIVE TxvTemps(_, _, _)
TxvTemps(txvs, roles, values) ==
    IF txvs = <<>> THEN <<>>
    ELSE LET val == PortReading(roles, values, "TXV", Head(txvs).id, "inlet")
         IN  (IF val # None THEN <<f_to_k(val)>> ELSE <<>>)
             \o TxvTemps(Tail(txvs), roles, values)

\* 89-93: the converted outlet readings of circuits i..circuits of one evaporator
RECURSIVE CircuitTemps(_, _, _, _, _)
CircuitTemps(id, i, circuits, roles, values) ==
    IF i > circuits THEN <<>>
    ELSE LET val == PortReading(roles, values, "Evaporator", id, OutletCircuitPort(i))
         IN  (IF val # None THEN <<f_to_k(val)>> ELSE <<>>)
             \o CircuitTemps(id, i + 1, circuits, roles, values)

\* 82-93
RECURSIVE EvapTemps(_, _, _)
EvapTemps(evaps, roles, values) ==
    IF evaps = <<>> THEN <<>>
    ELSE CircuitTemps(Head(evaps).id, 1, Get(Head(evaps).properties, "circuits", 1),
                      roles, values)
         \o EvapTemps(Tail(evaps), roles, values)

\* One "if val is not None: temps[name] = f_to_k(val)" of the first component of a type
FirstPortTemp(comps, roles, values, type, port, name) ==
    IF OfType(comps, type) = <<>> THEN EmptyDict
    ELSE LET val == PortReading(roles, values, type, Head(OfType(comps, type)).id, port)
         IN  IF val # None THEN (name :> f_to_k(val)) ELSE EmptyDict

\* sum(x) / len(x) stored under name when x is not empty
AverageTemp(temps_seq, name) ==
    IF temps_seq # <<>> THEN (name :> SumSeq(temps_seq) \div Len(temps_seq)) ELSE EmptyDict

\* 23-98
gather_temperatures_from_ports(comps, roles, values) ==
    FirstPortTemp(comps, roles, values, "Compressor", "inlet", "T_2b")
    @@ FirstPortTemp(comps, roles, values, "Compressor", "outlet", "T_3a")
    @@ FirstPortTemp(comps, roles, values, "Condenser", "inlet", "T_3b")
    @@ FirstPortTemp(comps, roles, values, "Condenser", "outlet", "T_4a")
    @@ AverageTemp(TxvTemps(OfType(comps, "TXV"), roles, values), "T_4b")
    @@ AverageTemp(EvapTemps(OfType(comps, "Evaporator"), roles, values), "T_2a")

\* 132-163; vol_eff in 1/1000
gather_compressor_specs(comps, roles, values) ==
    IF OfType(comps, "Compressor") = <<>> THEN EmptyDict
    ELSE LET comp == Head(OfType(comps, "Compressor"))
             val  == PortReading(roles, values, "Compressor", comp.id, "RPM")
         IN  [displacement_cm3 |-> Get(comp.properties, "displacement_cm3", None),
              vol_eff |-> Get(comp.properties, "vol_eff", DefaultEtaVol),
              speed_rpm |-> IF val # None THEN val
                            ELSE Get(comp.properties, "speed_rpm", None)]

\* calculation_engine.py 432-482; mass flows in 1e-6 kg/s and 1e-6 kg/h, the
\* displacement in m3 is the displacement in cm3 read in 1e-6 m3
calculate_mass_flow_rate(density_kgm3, displacement_cm3, speed_rpm, volumetric_efficiency) ==
    LET m_dot_theoretical_kgs == (density_kgm3 * displacement_cm3 * speed_rpm) \div 60
        m_dot_theoretical_kgh == density_kgm3 * displacement_cm3 * speed_rpm * 60
        m_dot_actual_kgs == (m_dot_theoretical_kgs * volumetric_efficiency) \div 1000
        m_dot_actual_kgh == (m_dot_theoretical_kgh * volumetric_efficiency) \div 1000
    IN  [theoretical_kgs |-> m_dot_theoretical_kgs,
         theoretical_kgh |-> m_dot_theoretical_kgh,
         actual_kgs |-> m_dot_actual_kgs,
         actual_kgh |-> m_dot_actual_kgh,
         actual_lbhr |-> (m_dot_actual_kgh \div 100000) * 220462,
         volumetric_efficiency |-> volumetric_efficiency,
         inputs |-> [density_kgm3 |-> density_kgm3,
                     displacement_cm3 |-> displacement_cm3,
                     displacement_m3 |-> displacement_cm3,
                     speed_rpm |-> speed_rpm,
                     speed_rps |-> speed_rpm \div 60,
                     speed_rph |-> speed_rpm * 60]]

\* calculation_engine.py 485-553; powers in W.  The EER divides by the
\* compressor power, which is zero when the mass flow is zero
SystemPerformanceRaises(state_points_, mass_flow_kgs) ==
    LET perf == Get(state_points_, "performance", EmptyDict)
        states == Get(state_points_, "states", EmptyDict)
    IN  /\ Truthy(Get(perf, "cop", None))
        /\ Truthy(Get(perf, "compressor_work_kJkg", None))
        /\ Truthy(Get(Get(states, "2b", EmptyDict), "h_kJkg", 0) * 1000)
        /\ Truthy(Get(Get(states, "4b", EmptyDict), "h_kJkg", 0) * 1000)
        /\ (mass_flow_kgs * perf["compressor_work_kJkg"]) \div 1000 = 0

calculate_system_performance(state_points_, mass_flow_kgs) ==
    LET states == Get(state_points_, "states", EmptyDict)
        perf   == Get(state_points_, "performance", EmptyDict)
        h_2b   == Get(Get(states, "2b", EmptyDict), "h_kJkg", 0) * 1000
        h_3a   == Get(Get(states, "3a", EmptyDict), "h_kJkg", 0) * 1000
        h_4a   == Get(Get(states, "4a", EmptyDict), "h_kJkg", 0) * 1000
        h_4b   == Get(Get(states, "4b", EmptyDict), "h_kJkg", 0) * 1000
        cooling_capacity_w == (mass_flow_kgs * ((h_2b - h_4b) \div 1000)) \div 1000
        compressor_work_kJkg == Get(perf, "compressor_work_kJkg", None)
        compressor_power_w == (mass_flow_kgs * compressor_work_kJkg) \div 1000
        heat_rejection_w == (mass_flow_kgs * ((h_3a - h_4a) \div 1000)) \div 1000
        cop == Get(perf, "cop", None)
        has_cooling == Truthy(h_2b) /\ Truthy(h_4b)
        has_power == Truthy(compressor_work_kJkg)
    IN  (IF has_cooling
         THEN ("cooling_capacity" :>
                 [watts |-> cooling_capacity_w,
                  btu_hr |-> (cooling_capacity_w * 3412) \div 1000,
                  tons |-> ((cooling_capacity_w * 3412) \div 1000) \div 12000])
         ELSE EmptyDict)
        @@ (IF has_power
            THEN ("compressor_power" :>
                    [watts |-> compressor_power_w,
                     horsepower |-> (compressor_power_w * 10) \div 7457])
            ELSE EmptyDict)
        @@ (IF Truthy(h_3a) /\ Truthy(h_4a)
            THEN ("heat_rejection" :>
                    [watts |-> heat_rejection_w,
                     btu_hr |-> (heat_rejection_w * 3412) \div 1000])
            ELSE EmptyDict)
        @@ (IF Truthy(cop)
            THEN ("efficiency" :>
                    (("cop" :> cop)
                     @@ (IF has_cooling /\ has_power
                         THEN ("eer" :> ((cooling_capacity_w * 3412) \div 1000)
                                           \div compressor_power_w)
                         ELSE EmptyDict)))
            ELSE EmptyDict)

\* The diagnostics of calculate_full_system
MissingSuction == "Missing suction pressure - map Compressor.SP port"
MissingLiquid == "Missing liquid pressure - map Compressor.DP port"
MissingT2b == "Missing compressor inlet temp (T_2b) - map Compressor.inlet port"
MissingT3a == "Missing compressor outlet temp (T_3a) - map Compressor.outlet port"
MissingT4b == "Missing TXV inlet temp (T_4b) - map TXV.inlet port(s)"
MissingT2a == "Missing evaporator outlet temp (T_2a) - map Evaporator.outlet_circuit_N port(s)"
MissingDisplacement == "Missing compressor displacement - set in Compressor properties"
MissingSpeed == "Missing compressor speed - map Compressor.RPM port or set in properties"
MissingDensity == "Cannot calculate mass flow - missing density (need T_2b)"

\* "if not x: errors.append(msg)"
Diagnose(x, msg) == IF Truthy(x) THEN <<>> ELSE <<msg>>

\* Mutant: ok is set only when no diagnostic was accumulated
calculate_full_system_okOnlyWithoutErrors(cp, comps, roles, values) ==
    LET pressures  == gather_pressures_from_ports(comps, roles, values)
        suction_pa == Get(pressures, "suction_pa", None)
        liquid_pa  == Get(pressures, "liquid_pa", None)
        pressure_errors == Diagnose(suction_pa, MissingSuction)
                           \o Diagnose(liquid_pa, MissingLiquid)
    IN
    IF pressure_errors # <<>>
    THEN [ok |-> FALSE, errors |-> pressure_errors, state_points |-> NullRecord,
          mass_flow |-> NullRecord, performance |-> NullRecord]
    ELSE
    LET temps_k == gather_temperatures_from_ports(comps, roles, values)
        temp_errors == Diagnose(Get(temps_k, "T_2b", None), MissingT2b)
                       \o Diagnose(Get(temps_k, "T_3a", None), MissingT3a)
                       \o Diagnose(Get(temps_k, "T_4b", None), MissingT4b)
                       \o Diagnose(Get(temps_k, "T_2a", None), MissingT2a)
        cycle == compute_8_point_cycle(cp, suction_pa, liquid_pa, temps_k)
        cycle_errors == Get(cycle, "errors", <<>>)
        specs == gather_compressor_specs(comps, roles, values)
        displacement == Get(specs, "displacement_cm3", None)
        speed_rpm == Get(specs, "speed_rpm", None)
        vol_eff == Get(specs, "vol_eff", DefaultEtaVol)
        spec_errors == Diagnose(displacement, MissingDisplacement)
                       \o Diagnose(speed_rpm, MissingSpeed)
        density == Get(cycle, "density_compressor_inlet_kgm3", None)
        has_flow == Truthy(density) /\ Truthy(displacement) /\ Truthy(speed_rpm)
        mass_flow == calculate_mass_flow_rate(density, displacement, speed_rpm, vol_eff)
    IN
    IF has_flow /\ SystemPerformanceRaises(cycle, mass_flow.actual_kgs)
    THEN [raised |-> "ZeroDivisionError"]
    ELSE
    [ok |-> "error" \notin DOMAIN cycle
            /\ temp_errors \o cycle_errors \o spec_errors = <<>>
            /\ (has_flow \/ Truthy(density)),
     errors |-> pressure_errors \o temp_errors \o cycle_errors \o spec_errors
                \o (IF ~has_flow /\ ~Truthy(density) THEN <<MissingDensity>> ELSE <<>>),
     state_points |-> cycle,
     mass_flow |-> IF has_flow THEN mass_flow ELSE NullRecord,
     performance |-> IF has_flow
                     THEN calculate_system_performance(cycle, mass_flow.actual_kgs)
                     ELSE NullRecord]

\* calculation_orchestrator.py 166-283 (the on_time statistics are copied
\* through from the data manager and are left out)
calculate_full_system(cp, comps, roles, values) ==
    LET pressures  == gather_pressures_from_ports(comps, roles, values)
        suction_pa == Get(pressures, "suction_pa", None)
        liquid_pa  == Get(pressures, "liquid_pa", None)
        pressure_errors == Diagnose(suction_pa, MissingSuction)
                           \o Diagnose(liquid_pa, MissingLiquid)
    IN
    IF pressure_errors # <<>>
    THEN [ok |-> FALSE, errors |-> pressure_errors, state_points |-> NullRecord,
          mass_flow |-> NullRecord, performance |-> NullRecord]
    ELSE
    LET temps_k == gather_temperatures_from_ports(comps, roles, values)
        temp_errors == Diagnose(Get(temps_k, "T_2b", None), MissingT2b)
                       \o Diagnose(Get(temps_k, "T_3a", None), MissingT3a)
                       \o Diagnose(Get(temps_k, "T_4b", None), MissingT4b)
                       \o Diagnose(Get(temps_k, "T_2a", None), MissingT2a)
        cycle == compute_8_point_cycle(cp, suction_pa, liquid_pa, temps_k)
        cycle_errors == Get(cycle, "errors", <<>>)
        specs == gather_compressor_specs(comps, roles, values)
        displacement == Get(specs, "displacement_cm3", None)
        speed_rpm == Get(specs, "speed_rpm", None)
        vol_eff == Get(specs, "vol_eff", DefaultEtaVol)
        spec_errors == Diagnose(displacement, MissingDisplacement)
                       \o Diagnose(speed_rpm, MissingSpeed)
        density == Get(cycle, "density_compressor_inlet_kgm3", None)
        has_flow == Truthy(density) /\ Truthy(displacement) /\ Truthy(speed_rpm)
        mass_flow == calculate_mass_flow_rate(density, displacement, speed_rpm, vol_eff)
    IN
    IF has_flow /\ SystemPerformanceRaises(cycle, mass_flow.actual_kgs)
    THEN [raised |-> "ZeroDivisionError"]
    ELSE
    [ok |-> "error" \notin DOMAIN cycle,
     errors |-> pressure_errors \o temp_errors \o cycle_errors \o spec_errors
                \o (IF ~has_flow /\ ~Truthy(density) THEN <<MissingDensity>> ELSE <<>>),
     state_points |-> cycle,
     mass_flow |-> IF has_flow THEN mass_flow ELSE NullRecord,
     performance |-> IF has_flow
                     THEN calculate_system_performance(cycle, mass_flow.actual_kgs)
                     ELSE NullRecord]

\* --- calculate_full_system called on its own -------------------------------
\* One compressor, one condenser, two expansion valves and one evaporator;
\* each port with the role whose column and plausible reading it carries
FullPorts ==
    { <<"Compressor", 1, "SP", "P_suc">>, <<"Compressor", 1, "DP", "P_disch">>,
      <<"Compressor", 1, "inlet", "T_2b">>, <<"Compressor", 1, "outlet", "T_3a">>,
      <<"Compressor", 1, "RPM", "RPM">>,
      <<"Condenser", 2, "inlet", "T_3b">>, <<"Condenser", 2, "outlet", "T_4a">>,
      <<"TXV", 3, "inlet", "T_4b-lh">>, <<"TXV", 4, "inlet", "T_4b-ctr">>,
      <<"Evaporator", 5, "outlet_circuit_1", "T_2a-LH">> }

FullComponents(compressor_props) ==
    << [id |-> 1, type |-> "Compressor", properties |-> compressor_props],
       [id |-> 2, type |-> "Condenser", properties |-> EmptyDict],
       [id |-> 3, type |-> "TXV", properties |-> Label("Left")],
       [id |-> 4, type |-> "TXV", properties |-> Label("Center")],
       [id |-> 5, type |-> "Evaporator", properties |-> Label("Left")] >>

\* The property bags of the compressor: displacement and fallback speed set or not
CompressorProps ==
    { EmptyDict,
      [displacement_cm3 |-> 50],
      [displacement_cm3 |-> 50, speed_rpm |-> 100],
      [displacement_cm3 |-> 0, speed_rpm |-> 100] }

FullSensorRoles(mapped) ==
    [k \in {RoleKey(x[1], x[2], x[3]) : x \in mapped} |->
        ColumnOf[(CHOOSE x \in mapped : RoleKey(x[1], x[2], x[3]) = k)[4]]]

\* The current reading of every column; the roles in bad read outside the
\* oracle's domain
FullSensorValues(bad) ==
    [c \in {ColumnOf[r] : r \in RowRoles} |->
        LET r == CHOOSE x \in RowRoles : ColumnOf[x] = c
        IN  IF r \in bad THEN BadValue[r] ELSE NominalValue[r]]

InitFull ==
    /\ pc = "full_ready"
    /\ CP \in BOOLEAN
    /\ \E props \in CompressorProps : components = FullComponents(props)
    /\ \E mapped \in SUBSET FullPorts : sensor_roles = FullSensorRoles(mapped)
    /\ \E bad \in {{}, {"T_2b"}, {"P_suc"}} : sensor_values = FullSensorValues(bad)
    /\ full_result = EmptyDict
    /\ resolved = <<>>
    /\ suction_pressure_pa = 0
    /\ liquid_pressure_pa = 0
    /\ temperatures_k = EmptyDict
    /\ state_points = EmptyDict
    /\ rated_inputs = EmptyDict
    /\ eta_vol_results = EmptyDict
    /\ RowIdle
    /\ input_columns = {}
    /\ series = <<>>
    /\ duplicate_prevention = EmptyDict
    /\ unmapped_roles = <<>>
    /\ results_df = <<>>

FullCall ==
    /\ pc = "full_ready"
    /\ full_result' = calculate_full_system(CP, components, sensor_roles, sensor_values)
    /\ pc' = "full_done"
    /\ UNCHANGED <<CP, rated_inputs, eta_vol_results, row, sensor_map, eta_vol, comp_specs,
                   row_result, batch_vars, suction_pressure_pa, liquid_pressure_pa,
                   temperatures_k, state_points, sensor_values, resolved>>

NextFull == FullCall

SpecFull == InitFull /\ [][NextFull]_vars

\* --- _find_sensor_for_role called on its own, repeatedly ---------------------
\* Calls made on one snapshot
MaxCalls == 2

\* The rules the calls are made with: those of the compressor roles and of
\* the roles of the left circuit
ResolveRules ==
    UNION {{REQUIRED_SENSOR_ROLES[i].defs[k] : k \in 1..Len(REQUIRED_SENSOR_ROLES[i].defs)} :
              i \in {j \in 1..Len(REQUIRED_SENSOR_ROLES) :
                        REQUIRED_SENSOR_ROLES[j].key \in {"P_suc", "P_disch", "T_2b", "T_1a-lh",
                                                          "T_1b-lh"}}}

InitResolve ==
    /\ pc = "resolve_ready"
    /\ CP = TRUE
    /\ \E n \in 0..MaxComps : \E opts \in [1..n -> CompOptions] : \E ascending \in BOOLEAN :
         /\ (n < 2 => ascending)
         /\ components = ComponentsOf(opts, ascending)
         /\ sensor_roles = SensorRolesOf(opts, ascending)
    /\ input_columns = {}
    /\ series = <<>>
    /\ duplicate_prevention = EmptyDict
    /\ unmapped_roles = <<>>
    /\ results_df = <<>>
    /\ rated_inputs = EmptyDict
    /\ eta_vol_results = EmptyDict
    /\ RowIdle
    /\ InstantIdle

\* Mutant: the resolver removes the mapping entries of the rule's port from
\* the mapping table once it has read them
ResolveCall_consuming ==
    /\ pc = "resolve_ready"
    /\ Len(resolved) < MaxCalls
    /\ \E role_def \in ResolveRules :
         /\ resolved # <<>> => role_def = resolved[1].role_def
         /\ resolved' = Append(resolved,
                               [role_def |-> role_def,
                                sensor |-> _find_sensor_for_role(components, sensor_roles,
                                                                 role_def)])
         /\ sensor_roles' = [k \in {x \in DOMAIN sensor_roles : x[3] # role_def.port} |->
                                sensor_roles[k]]
    /\ pc' = IF Len(resolved') = MaxCalls THEN "resolve_done" ELSE pc
    /\ UNCHANGED <<CP, rated_inputs, eta_vol_results, row, sensor_map, eta_vol, comp_specs,
                   row_result, components, input_columns, series, duplicate_prevention,
                   unmapped_roles, results_df, suction_pressure_pa, liquid_pressure_pa,
                   temperatures_k, state_points, sensor_values, full_result>>

\* 457-509: one call of _find_sensor_for_role(model, role_def); the calls
\* after the first are made with the rule of the first
ResolveCall ==
    /\ pc = "resolve_ready"
    /\ Len(resolved) < MaxCalls
    /\ \E role_def \in ResolveRules :
         /\ resolved # <<>> => role_def = resolved[1].role_def
         /\ resolved' = Append(resolved,
                               [role_def |-> role_def,
                                sensor |-> _find_sensor_for_role(components, sensor_roles,
                                                                 role_def)])
    /\ pc' = IF Len(resolved') = MaxCalls THEN "resolve_done" ELSE pc
    /\ UNCHANGED <<CP, rated_inputs, eta_vol_results, row, sensor_map, eta_vol, comp_specs,
                   row_result, batch_vars, suction_pressure_pa, liquid_pressure_pa,
                   temperatures_k, state_points, sensor_values, full_result>>

NextResolve == ResolveCall

SpecResolve == InitResolve /\ [][NextResolve]_vars

\* ========================================================================
\* Properties
\* ========================================================================
\* The guard pass of the batch run in progress has completed
GuardDone == pc = "rows" \/ (pc = "done" /\ "error" \notin DOMAIN eta_vol_results)

NumRoles == Len(REQUIRED_SENSOR_ROLES)

\* For the role at position i: the channel its rule resolves to when the
\* rule is the role's only one and the channel is a column of the input,
\* otherwise ""
OnlyRuleChannel(i) ==
    IF Len(REQUIRED_SENSOR_ROLES[i].defs) # 1 THEN ""
    ELSE LET c == _find_sensor_for_role(components, sensor_roles,
                                        REQUIRED_SENSOR_ROLES[i].defs[1])
         IN  IF c \in input_columns THEN c ELSE ""

\* The positions of the single-rule roles that resolve to a channel of the input
Resolving == {i \in 1..NumRoles : OnlyRuleChannel(i) # ""}

\* Positions i < j of two single-rule roles whose rules resolve to one
\* channel of the input
ContendingPair(i, j) == i < j /\ OnlyRuleChannel(i) = OnlyRuleChannel(j)

KeyAt(i) == REQUIRED_SENSOR_ROLES[i].key

InUnmapped(key) == \E i \in 1..Len(unmapped_roles) : unmapped_roles[i] = key

\* C1: after the guard pass the channel map is injective: no channel is the
\* value of two distinct roles.
C1_ChannelMapInjective ==
    GuardDone =>
        \A r1 \in DOMAIN sensor_map : \A r2 \in DOMAIN sensor_map :
            sensor_map[r1] = sensor_map[r2] => r1 = r2

\* A pass in which a second role resolved to a channel an earlier role holds
C1_Witness ==
    /\ GuardDone
    /\ \E r1 \in DOMAIN sensor_map : \E j \in 1..NumRoles :
         /\ KeyAt(j) # r1
         /\ \E k \in 1..Len(REQUIRED_SENSOR_ROLES[j].defs) :
              _find_sensor_for_role(components, sensor_roles,
                                    REQUIRED_SENSOR_ROLES[j].defs[k]) = sensor_map[r1]

\* C2 as stated: of two single-rule roles resolving to one channel of the
\* input, exactly the earlier one is mapped and the later one is unmapped.
C2_EarlierOfPairMapped ==
    GuardDone =>
        LET res == Resolving
        IN  \A j \in res : \A i \in res :
                ContendingPair(i, j) =>
                    /\ KeyAt(i) \in DOMAIN sensor_map
                    /\ KeyAt(j) \notin DOMAIN sensor_map
                    /\ InUnmapped(KeyAt(j))

\* The role that claimed channel c sits at position p or before it
ClaimedAtOrBefore(c, p) ==
    /\ c \in DOMAIN duplicate_prevention
    /\ \E q \in 1..p : KeyAt(q) = duplicate_prevention[c]

\* C2 amended: the later role of such a pair is always unmapped; the earlier
\* one is mapped, to that channel, exactly when no role before it has claimed
\* the channel, and is unmapped otherwise.
C2_LaterOfPairUnmapped ==
    GuardDone =>
        LET res == Resolving
        IN  \A j \in res : \A i \in res :
                ContendingPair(i, j) =>
                    /\ KeyAt(j) \notin DOMAIN sensor_map
                    /\ InUnmapped(KeyAt(j))
                    /\ ClaimedAtOrBefore(OnlyRuleChannel(i), i)
                    /\ IF duplicate_prevention[OnlyRuleChannel(i)] = KeyAt(i)
                       THEN /\ KeyAt(i) \in DOMAIN sensor_map
                            /\ sensor_map[KeyAt(i)] = OnlyRuleChannel(i)
                            /\ ~InUnmapped(KeyAt(i))
                       ELSE /\ KeyAt(i) \notin DOMAIN sensor_map
                            /\ InUnmapped(KeyAt(i))

\* A pass with a contending pair whose earlier role holds the channel
C2_Witness ==
    /\ GuardDone
    /\ LET res == Resolving
       IN  \E j \in res : \E i \in res :
             /\ ContendingPair(i, j)
             /\ KeyAt(i) \in DOMAIN sensor_map
             /\ InUnmapped(KeyAt(j))

\* ------------------------------------------------------------------------
\* The value the row transform reads for a role
RoleValue(r) == get_val(row, sensor_map, r)

\* Every oracle call the row makes is inside the oracle's domain
RowOracleOk ==
    /\ RoleValue("P_suc") # None
    /\ RoleValue("P_disch") # None
    /\ OracleCallsOk(psig_to_pa(RoleValue("P_suc")), psig_to_pa(RoleValue("P_disch")),
                     {RoleValue(r) : r \in {"T_2a-LH", "T_2a-ctr", "T_2a-RH", "T_2b"}},
                     {RoleValue(r) : r \in {"T_4b-lh", "T_4b-ctr", "T_4b-rh"}})

\* C3: a row without the suction or the discharge pressure yields exactly
\* the one field `error`, whatever the rest of the input is.
C3_MissingPressureIsSingleError ==
    (pc = "row_done" /\ (RoleValue("P_suc") = None \/ RoleValue("P_disch") = None))
        => DOMAIN row_result = {"error"}

\* A transformed row with the oracle available, one pressure present, the
\* other missing and the compressor inlet present
C3_Witness ==
    /\ pc = "row_done"
    /\ CP
    /\ RoleValue("P_suc") # None
    /\ RoleValue("P_disch") = None
    /\ RoleValue("T_2b") # None
    /\ DOMAIN row_result = {"error"}

\* ------------------------------------------------------------------------
\* The output rows of a batch run that got past Step 1
BatchRan == (pc = "rows" \/ pc = "done") /\ "error" \notin DOMAIN eta_vol_results

\* What the transform reads for a role in row rw of the batch
BatchValue(rw, r) == get_val(rw, sensor_map, r)

\* Row rw fails fatally: a mandatory pressure is missing, an oracle call is
\* outside its domain, or the transform reads the unbound rho_2b
RowFatal(rw) ==
    \/ BatchValue(rw, "P_suc") = None
    \/ BatchValue(rw, "P_disch") = None
    \/ ~OracleCallsOk(psig_to_pa(BatchValue(rw, "P_suc")), psig_to_pa(BatchValue(rw, "P_disch")),
                      {BatchValue(rw, r) : r \in {"T_2a-LH", "T_2a-ctr", "T_2a-RH", "T_2b"}},
                      {BatchValue(rw, r) : r \in {"T_4b-lh", "T_4b-ctr", "T_4b-rh"}})
    \/ Rho2bUnbound(BatchValue(rw, "RPM"), BatchValue(rw, "T_2b"))

\* The output of one row as a function of that row and of the inputs of the
\* run other than the series: rated inputs, topology, mapping table, columns
RowAlone(rw) ==
    calculate_row_performance(
        CP, rw,
        GuardPass(NumRoles, components, sensor_roles, input_columns).sensor_map,
        Get(calculate_volumetric_efficiency(CP, rated_inputs), "eta_vol", DefaultEtaVol),
        [displacement_m3 |->
            ft3_to_m3(IF Falsy(Get(rated_inputs, "disp_ft3", None)) THEN 0
                      ELSE rated_inputs["disp_ft3"])])

\* C4 as stated: the returned table has exactly one row per input row.
C4_OneOutputRowPerInputRow ==
    pc = "done" => Len(results_df) = Len(series)

\* C5: a row that fails fatally does not stop the run: the run returns one
\* output per input row, the failing row's output is the single field
\* `error`, and every row's output is what that row yields on its own, so
\* it does not depend on the failing row being in the series.
C5_RowFailureIsLocal ==
    BatchRan =>
        /\ pc = "done" => Len(results_df) = Len(series)
        /\ Len(results_df) <= Len(series)
        /\ \A i \in 1..Len(results_df) :
             /\ results_df[i] = RowAlone(series[i])
             /\ RowFatal(series[i]) => DOMAIN results_df[i] = {"error"}

\* A finished three-row run whose second row lacks the suction pressure and
\* whose first and third rows are transformed without error
C5_Witness ==
    /\ pc = "done"
    /\ BatchRan
    /\ Len(series) = 3
    /\ Len(results_df) = 3
    /\ "P_suc" \in DOMAIN sensor_map
    /\ BatchValue(series[2], "P_suc") = None
    /\ DOMAIN results_df[2] = {"error"}
    /\ "error" \notin DOMAIN results_df[1]
    /\ "error" \notin DOMAIN results_df[3]

\* ------------------------------------------------------------------------
\* The calibration call runs into a degraded case: a rated input missing or
\* zero, an oracle call outside its domain, or a zero theoretical mass flow
RatedDegraded(ri) ==
    \/ MissingRated(ri) # <<>>
    \/ ~PropsOk_TQ(f_to_k(ri["rated_evap_temp_f"]))
    \/ ~PropsOk_TP(f_to_k(ri["rated_return_gas_temp_f"]),
                   PropsSI_P_TQ(f_to_k(ri["rated_evap_temp_f"])))
    \/ PropsSI_D_TP(f_to_k(ri["rated_return_gas_temp_f"]),
                    PropsSI_P_TQ(f_to_k(ri["rated_evap_temp_f"]))) = 0

\* C6 as stated: every degraded case returns eta_vol = 0.85 with method
\* "default".
C6_DegradedReturnsDefault ==
    (pc = "calib_done" /\ RatedDegraded(rated_inputs)) =>
        /\ "eta_vol" \in DOMAIN eta_vol_results
        /\ eta_vol_results["eta_vol"] = DefaultEtaVol
        /\ "method" \in DOMAIN eta_vol_results
        /\ eta_vol_results["method"] = "default"

\* C7 as stated: for every rated-input record and every oracle state the
\* returned record carries method "calculated" or "default" and an eta_vol.
C7_AlwaysMethodRecord ==
    pc = "calib_done" =>
        /\ "method" \in DOMAIN eta_vol_results
        /\ eta_vol_results["method"] \in {"calculated", "default"}
        /\ "eta_vol" \in DOMAIN eta_vol_results

\* ------------------------------------------------------------------------
\* A prerequisite of mass flow or cooling capacity is missing
PrerequisiteMissing ==
    \/ RoleValue("RPM") = None
    \/ RoleValue("T_2b") = None
    \/ Get(comp_specs, "displacement_m3", 0) <= 0
    \/ \A r \in {"T_4b-lh", "T_4b-ctr", "T_4b-rh"} : RoleValue(r) = None

\* C8 as stated: with both pressures present (and the oracle answering), a
\* missing prerequisite of mass flow or cooling capacity never yields an
\* `error`: both fields are absent and the rest of the output is there.
C8_MissingPrerequisiteIsNoError ==
    (pc = "row_done" /\ CP /\ RowOracleOk /\ PrerequisiteMissing) =>
        /\ "error" \notin DOMAIN row_result
        /\ "Press disch" \in DOMAIN row_result
        /\ "Mass flow rate" \notin DOMAIN row_result
        /\ "Cooling cap" \notin DOMAIN row_result

\* ------------------------------------------------------------------------
\* The fields in which two outputs differ: present in one only, or present
\* in both with different values
FieldsThatDiffer(a, b) ==
    {f \in DOMAIN a \cup DOMAIN b :
        f \notin DOMAIN a \/ f \notin DOMAIN b \/ a[f] # b[f]}

\* The output for the row with the speed value removed, and for the same
\* row with the speed role left out of the channel map
WithoutSpeedValue ==
    calculate_row_performance(CP, [row EXCEPT ![ColumnOf["RPM"]] = None], sensor_map,
                              eta_vol, comp_specs)

WithoutSpeedRole ==
    calculate_row_performance(CP, row,
                              [r \in DOMAIN sensor_map \ {"RPM"} |-> sensor_map[r]],
                              eta_vol, comp_specs)

\* A transformed complete row: every role has a value, the speed is
\* positive, the oracle answers every call with a non-zero inlet density,
\* and the calibration constant and the displacement are positive
CompleteRowDone ==
    /\ pc = "row_done"
    /\ CP
    /\ \A r \in RowRoles : RoleValue(r) # None
    /\ RoleValue("RPM") > 0
    /\ RowOracleOk
    /\ PropsSI_D_TP(f_to_k(RoleValue("T_2b")), psig_to_pa(RoleValue("P_suc"))) # 0
    /\ eta_vol > 0
    /\ Get(comp_specs, "displacement_m3", 0) > 0

CircuitRole == [c \in {"LH", "CTR", "RH"} |->
                  CASE c = "LH" -> "T_2a-LH" [] c = "CTR" -> "T_2a-ctr" [] c = "RH" -> "T_2a-RH"]

CircuitFields ==
    [c \in {"LH", "CTR", "RH"} |->
        CASE c = "LH" -> {"T_2a-LH", "T_sat.lh", "S.H_lh coil", "H_coil lh", "S_coil lh", "D_coil lh"}
          [] c = "CTR" -> {"T_2a-ctr", "T_sat.ctr", "S.H_ctr coil", "H_coil ctr", "S_coil ctr",
                           "D_coil ctr"}
          [] c = "RH" -> {"T_2a-RH", "T_sat.rh", "S.H_rh coil", "H_coil rh", "S_coil rh", "D_coil rh"}]

\* C10 as stated: with both pressures present and the oracle answering, a
\* circuit's evaporator-outlet fields are in the output exactly when that
\* circuit's temperature is present, and the output is no error.
C10_CircuitFieldsIffTemperature ==
    (pc = "row_done" /\ CP /\ RowOracleOk) =>
        /\ "error" \notin DOMAIN row_result
        /\ \A c \in {"LH", "CTR", "RH"} :
             IF RoleValue(CircuitRole[c]) # None
             THEN CircuitFields[c] \subseteq DOMAIN row_result
             ELSE CircuitFields[c] \cap DOMAIN row_result = {}

\* ------------------------------------------------------------------------
\* The prerequisites the mass flow is stated to need: speed present and
\* positive, compressor-inlet density known and non-zero, displacement and
\* calibration constant positive, the oracle answering every call
MassFlowPrerequisites ==
    /\ pc = "row_done"
    /\ CP
    /\ RowOracleOk
    /\ RoleValue("RPM") # None
    /\ RoleValue("RPM") > 0
    /\ RoleValue("T_2b") # None
    /\ PropsSI_D_TP(f_to_k(RoleValue("T_2b")), psig_to_pa(RoleValue("P_suc"))) # 0
    /\ eta_vol > 0
    /\ Get(comp_specs, "displacement_m3", 0) > 0

\* C11 as stated: with its prerequisites the mass-flow field is emitted, with
\* value density * eta_vol * displacement * (speed / 60), whether or not an
\* expansion-device inlet temperature is present.
C11_MassFlowWithoutExpansionInlet ==
    MassFlowPrerequisites =>
        /\ "Mass flow rate" \in DOMAIN row_result
        /\ row_result["Mass flow rate"] =
             (MassFlowKgs(PropsSI_D_TP(f_to_k(RoleValue("T_2b")), psig_to_pa(RoleValue("P_suc"))),
                          eta_vol, comp_specs["displacement_m3"], RoleValue("RPM"))
                \div 1000000) * 7937

\* ------------------------------------------------------------------------
\* The cycle call has returned a record with states
CycleDone == pc = "cycle_done" /\ "states" \in DOMAIN state_points

\* C12: when the evaporator-inlet state "1" and the expansion-inlet state
\* "4b" are both in the result their enthalpies are equal, and state "1" is
\* in the result only if an expansion-inlet temperature was supplied.
C12_IsenthalpicExpansion ==
    CycleDone =>
        /\ ({"1", "4b"} \subseteq DOMAIN state_points.states
              => state_points.states["1"].h_kJkg = state_points.states["4b"].h_kJkg)
        /\ ("1" \in DOMAIN state_points.states
              => /\ "T_4b" \in DOMAIN temperatures_k
                 /\ temperatures_k["T_4b"] # None
                 /\ "4b" \in DOMAIN state_points.states)

\* A returned cycle with the expansion inlet supplied and both states stored
C12_Witness ==
    /\ CycleDone
    /\ "T_4b" \in DOMAIN temperatures_k
    /\ {"1", "4b"} \subseteq DOMAIN state_points.states

\* ------------------------------------------------------------------------
\* What calculate_full_system gathers in the current state
FullPressures == gather_pressures_from_ports(components, sensor_roles, sensor_values)
FullTemps == gather_temperatures_from_ports(components, sensor_roles, sensor_values)
FullSpecs == gather_compressor_specs(components, sensor_roles, sensor_values)

\* The value calculate_full_system tests before each diagnostic
DiagnosedInput ==
    (MissingSuction :> Get(FullPressures, "suction_pa", None))
    @@ (MissingLiquid :> Get(FullPressures, "liquid_pa", None))
    @@ (MissingT2b :> Get(FullTemps, "T_2b", None))
    @@ (MissingT3a :> Get(FullTemps, "T_3a", None))
    @@ (MissingT4b :> Get(FullTemps, "T_4b", None))
    @@ (MissingT2a :> Get(FullTemps, "T_2a", None))
    @@ (MissingDisplacement :> Get(FullSpecs, "displacement_cm3", None))
    @@ (MissingSpeed :> Get(FullSpecs, "speed_rpm", None))

\* The diagnostic of each input that is missing
ExpectedDiagnostics == {msg \in DOMAIN DiagnosedInput : ~Truthy(DiagnosedInput[msg])}

\* C13 as stated: the call returns a record, and its errors list holds the
\* diagnostic of every missing input, whatever else is missing.
C13_EveryMissingInputDiagnosed ==
    pc = "full_done" =>
        /\ "errors" \in DOMAIN full_result
        /\ \A msg \in ExpectedDiagnostics :
             \E i \in 1..Len(full_result.errors) : full_result.errors[i] = msg

\* ------------------------------------------------------------------------
\* C14: after the guard pass every channel of the channel map is a column
\* of the input series.
C14_MappedChannelIsInputColumn ==
    GuardDone => \A r \in DOMAIN sensor_map : sensor_map[r] \in input_columns

\* A pass in which one role is mapped and another role's rule resolved to a
\* channel that is no column of the input, that role being left unmapped
C14_Witness ==
    /\ GuardDone
    /\ DOMAIN sensor_map # {}
    /\ \E j \in 1..NumRoles :
         /\ Len(REQUIRED_SENSOR_ROLES[j].defs) = 1
         /\ LET c == _find_sensor_for_role(components, sensor_roles,
                                           REQUIRED_SENSOR_ROLES[j].defs[1])
            IN  c # "" /\ c \notin input_columns
         /\ InUnmapped(KeyAt(j))

\* ------------------------------------------------------------------------
\* The channels held, after the pass, by the roles before position i
ClaimedBefore(i) ==
    {sensor_map[KeyAt(q)] : q \in {x \in 1..(i - 1) : KeyAt(x) \in DOMAIN sensor_map}}

\* The channel rule k of the role at position i resolves to ("" for none)
RuleChannel(i, k) ==
    _find_sensor_for_role(components, sensor_roles, REQUIRED_SENSOR_ROLES[i].defs[k])

\* Rule k of the role at position i resolves to a channel that is a column
\* of the input and that no earlier role holds
AcceptableRule(i, k) ==
    /\ RuleChannel(i, k) # ""
    /\ RuleChannel(i, k) \in input_columns
    /\ RuleChannel(i, k) \notin ClaimedBefore(i)

\* The positions of the roles with several candidate rules
MultiRule == {i \in 1..NumRoles : Len(REQUIRED_SENSOR_ROLES[i].defs) > 1}

\* C15: a role with several rules is mapped through its highest-priority
\* acceptable rule: to the channel of the first rule, in priority order,
\* whose channel is present in the data and unclaimed by an earlier role;
\* it is mapped at all exactly when such a rule exists.
C15_HighestPriorityAcceptableRule ==
    GuardDone =>
        \A i \in MultiRule :
            LET ok == {k \in 1..Len(REQUIRED_SENSOR_ROLES[i].defs) : AcceptableRule(i, k)}
            IN  IF ok = {}
                THEN KeyAt(i) \notin DOMAIN sensor_map
                ELSE /\ KeyAt(i) \in DOMAIN sensor_map
                     /\ sensor_map[KeyAt(i)] =
                          RuleChannel(i, CHOOSE k \in ok : \A m \in ok : k <= m)

\* A pass in which the first rule of a role resolved to a channel an earlier
\* role holds and the role is mapped through its second rule
C15_Witness ==
    /\ GuardDone
    /\ \E i \in MultiRule :
         /\ RuleChannel(i, 1) \in ClaimedBefore(i)
         /\ AcceptableRule(i, 2)
         /\ KeyAt(i) \in DOMAIN sensor_map
         /\ sensor_map[KeyAt(i)] = RuleChannel(i, 2)
         /\ sensor_map[KeyAt(i)] # RuleChannel(i, 1)

\* ------------------------------------------------------------------------
\* Some component matching rule k of the role at position i has a non-empty
\* mapped channel that is a column of the input and that no earlier role holds
FreeMatchingComponent(i, k) ==
    LET role_def == REQUIRED_SENSOR_ROLES[i].defs[k]
        matching == MatchingComponents(components, role_def)
    IN  \E n \in 1..Len(matching) :
          LET c == resolve_mapped_sensor(sensor_roles, role_def.type, matching[n].id,
                                         role_def.port)
          IN  c # "" /\ c \in input_columns /\ c \notin ClaimedBefore(i)

\* C16 as stated: a role ends the pass unmapped only when no component
\* matching any of its rules has a mapped channel that is in the data and
\* unclaimed by an earlier role.
C16_UnmappedOnlyWhenNothingFree ==
    GuardDone =>
        \A i \in 1..NumRoles :
            InUnmapped(KeyAt(i)) =>
                \A k \in 1..Len(REQUIRED_SENSOR_ROLES[i].defs) : ~FreeMatchingComponent(i, k)

\* C16 amended: a role ends the pass unmapped exactly when, for each of its
\* rules, the one channel the resolver returns for the rule (that of the
\* first matching component with a non-empty mapping) is none, is no column
\* of the input, or is held by an earlier role; further matching components
\* of the rule are not tried.
C16_UnmappedWhenNoRuleAcceptable ==
    GuardDone =>
        \A i \in 1..NumRoles :
            InUnmapped(KeyAt(i)) <=>
                \A k \in 1..Len(REQUIRED_SENSOR_ROLES[i].defs) : ~AcceptableRule(i, k)

\* A pass in which a role is left unmapped although a second component
\* matching its rule has a free channel of the input
C16_Witness ==
    /\ GuardDone
    /\ \E i \in 1..NumRoles :
         /\ InUnmapped(KeyAt(i))
         /\ \E k \in 1..Len(REQUIRED_SENSOR_ROLES[i].defs) :
              /\ FreeMatchingComponent(i, k)
              /\ RuleChannel(i, k) \in ClaimedBefore(i)

\* ------------------------------------------------------------------------
\* The channel of the matching component with the smallest id among those
\* with a non-empty mapping for the rule's port ("" when there is none)
SmallestIdChannel(i, k) ==
    LET role_def == REQUIRED_SENSOR_ROLES[i].defs[k]
        matching == MatchingComponents(components, role_def)
        chan(n)  == resolve_mapped_sensor(sensor_roles, role_def.type, matching[n].id,
                                          role_def.port)
        mapped   == {n \in 1..Len(matching) : chan(n) # ""}
    IN  IF mapped = {} THEN ""
        ELSE chan(CHOOSE n \in mapped : \A m \in mapped : matching[n].id <= matching[m].id)

\* C17: within one rule the resolver returns the channel of the matching
\* component with the smallest id that has a non-empty mapping, whatever
\* the order in which the topology stores its components.
C17_SmallestIdComponentWins ==
    GuardDone =>
        \A i \in 1..NumRoles : \A k \in 1..Len(REQUIRED_SENSOR_ROLES[i].defs) :
            RuleChannel(i, k) = SmallestIdChannel(i, k)

\* ------------------------------------------------------------------------
\* C18 as stated: with k >= 1 rated inputs missing or zero the returned
\* record carries exactly k warnings, the n-th naming the n-th missing field
\* and no other.
C18_OneWarningPerMissingField ==
    (pc = "calib_done" /\ MissingRated(rated_inputs) # <<>>) =>
        LET missing == MissingRated(rated_inputs)
        IN  /\ "warnings" \in DOMAIN eta_vol_results
            /\ Len(eta_vol_results["warnings"]) = Len(missing)
            /\ eta_vol_results["warnings"][1] = <<"Missing rated inputs", <<missing[1]>>>>
            /\ \A n \in 2..Len(missing) :
                 eta_vol_results["warnings"][n] = <<"Missing rated inputs", <<missing[n]>>>>

\* ------------------------------------------------------------------------
\* The calibration call has every rated input, an available oracle that
\* answers both queries, and a non-zero theoretical mass flow
RatedConsistent ==
    /\ CP
    /\ MissingRated(rated_inputs) = <<>>
    /\ ~RatedDegraded(rated_inputs)
    /\ rated_inputs["hz_rated"] * rated_inputs["disp_ft3"] # 0

\* Density at the rated return-gas temperature and the saturation pressure
\* of the rated evaporator temperature, in 1/1000 lb/ft3
RatedDensity ==
    (PropsSI_D_TP(f_to_k(rated_inputs["rated_return_gas_temp_f"]),
                  PropsSI_P_TQ(f_to_k(rated_inputs["rated_evap_temp_f"]))) * 62428) \div 1000

\* C19: with all five rated inputs present and non-zero, the oracle
\* succeeding and a non-zero theoretical mass flow, the record has method
\* "calculated", no warnings, and eta_vol = rated mass flow / (density x
\* (rated Hz x 3600) x displacement).
C19_CalculatedEfficiency ==
    (pc = "calib_done" /\ RatedConsistent) =>
        /\ eta_vol_results["method"] = "calculated"
        /\ eta_vol_results["warnings"] = <<>>
        /\ eta_vol_results["eta_vol"] =
             (rated_inputs["m_dot_rated_lbhr"] * 1000000)
                 \div (RatedDensity * (rated_inputs["hz_rated"] * 3600)
                         * rated_inputs["disp_ft3"])

\* A calibration on the calculated path whose efficiency is neither zero
\* nor the default
C19_Witness ==
    /\ pc = "calib_done"
    /\ RatedConsistent
    /\ eta_vol_results["eta_vol"] > 0
    /\ eta_vol_results["eta_vol"] # DefaultEtaVol
    /\ rated_inputs["hz_rated"] > 1

\* ------------------------------------------------------------------------
\* What the oracle returns for the compressor inlet (at suction pressure)
\* and the expansion inlet (at liquid pressure) of the current cycle call
CycleH2b == PropsSI_H_TP(temperatures_k["T_2b"], suction_pressure_pa)
CycleS2b == PropsSI_S_TP(temperatures_k["T_2b"], suction_pressure_pa)
CycleH4b == PropsSI_H_TP(temperatures_k["T_4b"], liquid_pressure_pa)

CycleOrder == <<"3a", "3b", "4a", "4b", "1", "2a", "2b">>

\* The temperature a measured block reads, and the pressure it is taken at
BlockTemp(key) == Get(temperatures_k, "T_" \o key, None)
BlockPressure(key) ==
    IF key \in {"3a", "3b", "4a", "4b"} THEN liquid_pressure_pa ELSE suction_pressure_pa

\* The block's "if" lets it run, given that the blocks before it ran through
BlockRuns(key) ==
    IF key = "1"
    THEN Truthy(BlockTemp("4b")) /\ Truthy(CycleH4b)
    ELSE Truthy(BlockTemp(key))

\* Every oracle call of the block succeeds
BlockOracleOk(key) ==
    IF key = "1"
    THEN PropsOk_PH(suction_pressure_pa, CycleH4b)
    ELSE PropsOk_TP(BlockTemp(key), BlockPressure(key))

\* The record the block stores
BlockState(key) ==
    CASE key = "3a" -> SuperheatedState("Compressor Outlet", BlockTemp(key), liquid_pressure_pa)
      [] key = "3b" -> SuperheatedState("Condenser Inlet", BlockTemp(key), liquid_pressure_pa)
      [] key = "4a" -> SubcooledState("Condenser Outlet", BlockTemp(key), liquid_pressure_pa)
      [] key = "4b" -> SubcooledState("TXV Inlet", BlockTemp(key), liquid_pressure_pa)
      [] key = "1"  -> EvaporatorInletState(CycleH4b, suction_pressure_pa)
      [] key = "2a" -> SuperheatedState("Evaporator Outlet", BlockTemp(key), suction_pressure_pa)
      [] key = "2b" -> SuperheatedState("Compressor Inlet", BlockTemp(key), suction_pressure_pa)

\* Positions of the blocks whose oracle call fails when they run
FailingBlocks == {n \in 1..Len(CycleOrder) :
                     BlockRuns(CycleOrder[n]) /\ ~BlockOracleOk(CycleOrder[n])}

\* Position of the first failing oracle call (0: no call fails)
FirstFailure ==
    IF FailingBlocks = {} THEN 0
    ELSE CHOOSE n \in FailingBlocks : \A m \in FailingBlocks : n <= m

\* C21: on an oracle failure compute_8_point_cycle returns its result
\* record with an error string in `errors`, and every state stored before the
\* failing call is in `states` with the value it was stored with.
C21_FailureKeepsStoredStates ==
    (pc = "cycle_done" /\ CP /\ FirstFailure # 0) =>
        /\ {"states", "errors", "performance", "pressures"} \subseteq DOMAIN state_points
        /\ state_points.errors = <<"Calculation error: PropsSI failed">>
        /\ \A n \in 1..(FirstFailure - 1) :
             BlockRuns(CycleOrder[n]) =>
                /\ CycleOrder[n] \in DOMAIN state_points.states
                /\ state_points.states[CycleOrder[n]] = BlockState(CycleOrder[n])

\* A returned cycle in which an oracle call failed after two states were stored
C21_Witness ==
    /\ pc = "cycle_done" /\ CP
    /\ FirstFailure > 2
    /\ state_points.errors # <<>>
    /\ \E a, b \in DOMAIN state_points.states : a # b

\* ------------------------------------------------------------------------
\* The blocks that compute the state of a supplied temperature
MeasuredBlocks == {"3a", "3b", "4a", "4b", "2a", "2b"}

\* C22 as stated: a failure while computing one supplied temperature's
\* state does not prevent the others: every supplied temperature whose own
\* oracle calls succeed has its state in the result.
C22_FailureIsPerComputation ==
    (pc = "cycle_done" /\ CP) =>
        \A key \in MeasuredBlocks :
            (Truthy(BlockTemp(key)) /\ BlockOracleOk(key)) =>
                key \in DOMAIN state_points.states

TypeAndFilterMatch(role_def) ==
    {n \in 1..Len(components) :
        /\ components[n].type = role_def.type
        /\ \A key \in DOMAIN role_def.props :
             /\ key \in DOMAIN components[n].properties
             /\ components[n].properties[key] = role_def.props[key]}

\* The channel mapped to the rule's port at the component at position n
ChannelAt(n, role_def) ==
    resolve_mapped_sensor(sensor_roles, role_def.type, components[n].id, role_def.port)

\* C25: a component matches a rule only if its type is the rule's type and
\* it stores the filter's value for every filter key: the channel a call
\* returns is that of the first such component with a non-empty mapping, a
\* component lacking a filter key is never used, and a rule without filter
\* takes every component of its type.
C25_MatchByTypeAndFilter ==
    \A c \in DOMAIN resolved :
        LET role_def == resolved[c].role_def
            mapped   == {n \in TypeAndFilterMatch(role_def) : ChannelAt(n, role_def) # ""}
        IN  /\ resolved[c].sensor =
                 (IF mapped = {} THEN ""
                  ELSE ChannelAt(CHOOSE n \in mapped : \A m \in mapped : n <= m, role_def))
            /\ role_def.props = EmptyDict =>
                 TypeAndFilterMatch(role_def) =
                    {n \in 1..Len(components) : components[n].type = role_def.type}

\* A call with a filtered rule returned none although a component of the
\* rule's type, lacking the filter key, has a channel mapped to the port
C25_Witness ==
    /\ resolved # <<>>
    /\ resolved[1].role_def.props # EmptyDict
    /\ resolved[1].sensor = ""
    /\ \E n \in 1..Len(components) :
         /\ components[n].type = resolved[1].role_def.type
         /\ components[n].properties = EmptyDict
         /\ ChannelAt(n, resolved[1].role_def) # ""

\* ------------------------------------------------------------------------
\* C26: in one batch run the calibration constant and the channel map are
\* each computed once, before the first row is transformed, and every row is
\* transformed with those same values; the run modifies neither the rated
\* inputs, the topology, the mapping table nor the input series.
C26_CalibrationAndMapFixedForRun ==
    /\ [](BatchRan =>
            \A i \in 1..Len(results_df) :
                results_df[i] = calculate_row_performance(CP, series[i], sensor_map,
                                                          eta_vol, comp_specs))
    /\ [](results_df # <<>> => pc \in {"rows", "done"})
    /\ [][/\ (eta_vol' # eta_vol \/ comp_specs' # comp_specs) => pc = "start"
          /\ sensor_map' # sensor_map => pc = "guard"
          /\ UNCHANGED <<rated_inputs, components, sensor_roles, input_columns, series>>]_vars

\* A finished run of three rows, two of them with a mass flow, made with a
\* calculated calibration constant and a channel map holding the speed role
C26_Witness ==
    /\ pc = "done"
    /\ BatchRan
    /\ Len(results_df) = 3
    /\ eta_vol_results["method"] = "calculated"
    /\ eta_vol # DefaultEtaVol
    /\ "RPM" \in DOMAIN sensor_map
    /\ "Mass flow rate" \in DOMAIN results_df[1]
    /\ "Mass flow rate" \in DOMAIN results_df[3]

\* ------------------------------------------------------------------------
\* The pressure at which the oracle is asked about an optional temperature
\* of the row: suction for the evaporator outlets and the compressor inlet,
\* discharge for the expansion-device inlets
SectionPressure(r) ==
    IF r \in {"T_4b-lh", "T_4b-ctr", "T_4b-rh"}
    THEN psig_to_pa(RoleValue("P_disch"))
    ELSE psig_to_pa(RoleValue("P_suc"))

\* The roles whose reading is present and makes the oracle fail
FailingSections ==
    {r \in {"T_2a-LH", "T_2a-ctr", "T_2a-RH", "T_2b", "T_4b-lh", "T_4b-ctr", "T_4b-rh"} :
        /\ RoleValue(r) # None
        /\ ~PropsOk_TP(f_to_k(RoleValue(r)), SectionPressure(r))}

\* C27: with both pressures present, an oracle failure in any one optional
\* section of the row turns the whole output into the single field `error`;
\* nothing derived from the other sensors is kept.
C27_SectionFailureDiscardsRow ==
    (pc = "row_done" /\ CP /\ RoleValue("P_suc") # None /\ RoleValue("P_disch") # None
        /\ FailingSections # {}) =>
            DOMAIN row_result = {"error"}

\* A transformed row with valid pressures in which exactly one optional
\* section fails while the compressor inlet is readable
C27_Witness ==
    /\ pc = "row_done"
    /\ CP
    /\ RoleValue("P_suc") # None /\ RoleValue("P_disch") # None
    /\ PropsOk_PQ(psig_to_pa(RoleValue("P_suc")))
    /\ PropsOk_PQ(psig_to_pa(RoleValue("P_disch")))
    /\ Cardinality(FailingSections) = 1
    /\ "T_2b" \notin FailingSections
    /\ RoleValue("T_2b") # None
    /\ DOMAIN row_result = {"error"}

\* ------------------------------------------------------------------------
\* C28 as stated: whenever the expansion-inlet state "4b" is computed and
\* the suction-side oracle calls succeed, the evaporator-inlet state "1" is
\* computed too, and whenever the states "2b" and "4b" are both computed
\* the performance block is filled, whatever enthalpy the oracle returned
\* (zero included).
C28_ZeroEnthalpyIsAnEnthalpy ==
    (pc = "cycle_done" /\ CP) =>
        /\ ("4b" \in DOMAIN state_points.states
              /\ PropsOk_PH(suction_pressure_pa, CycleH4b))
                 => "1" \in DOMAIN state_points.states
        /\ {"2b", "4b"} \subseteq DOMAIN state_points.states
                 => state_points.performance # EmptyDict

\* ------------------------------------------------------------------------
\* Both pressures were resolved to non-zero values
BothPressuresResolved ==
    Truthy(Get(FullPressures, "suction_pa", None)) /\ Truthy(Get(FullPressures, "liquid_pa", None))

\* The record the cycle model returns for what the call gathers
FullCycle ==
    compute_8_point_cycle(CP, FullPressures["suction_pa"], FullPressures["liquid_pa"], FullTemps)

C30_MappedXorUnmapped ==
    GuardDone =>
        /\ \A i \in 1..NumRoles :
             (KeyAt(i) \in DOMAIN sensor_map) <=> ~InUnmapped(KeyAt(i))
        /\ \A a, b \in 1..Len(unmapped_roles) :
             unmapped_roles[a] = unmapped_roles[b] => a = b
        /\ Cardinality(DOMAIN sensor_map) + Len(unmapped_roles) = NumRoles
        /\ DOMAIN sensor_map \subseteq {KeyAt(i) : i \in 1..NumRoles}

\* A pass that mapped two roles and left a role unmapped whose rule
\* resolved to a channel an earlier role holds
C30_Witness ==
    /\ GuardDone
    /\ Cardinality(DOMAIN sensor_map) >= 2
    /\ \E i \in 1..NumRoles :
         /\ InUnmapped(KeyAt(i))
         /\ RuleChannel(i, 1) \in ClaimedBefore(i)

====
